---------------------------- MODULE Spec2Model ----------------------------
(***************************************************************************)
(* Model of the relevance analyzer of the web crawler                      *)
(* (src/src/ai-link-analyzer.ts): analyzeLinksWithAI, parseAIResponse and  *)
(* fallbackTextAnalysis, and of its extractors: extractPageContent         *)
(* (src/src/content-extractor.ts) and extractPageContentFromMarkdown       *)
(* (src/src/browser-utils.ts).                                             *)
(*                                                                         *)
(* Representation                                                          *)
(*  - a JavaScript string that the code inspects character by character    *)
(*    (the query, a link's text and url) is a sequence of one-character    *)
(*    strings;                                                             *)
(*  - a relevance score is an integer number of hundredths (0.4 is 40);    *)
(*  - the text of a model response is a sequence of lexical tokens;        *)
(*  - maxLinks is a count: 0 or more;                                      *)
(*                                                                         *)
(*  - the source of a page text is a sequence of segments [k, n].          *)
(*                                                                         *)
(* Spec runs analyzeLinksWithAI, twice on the same arguments; FallbackSpec *)
(* applies fallbackTextAnalysis on its own; ExtractSpec runs one of the    *)
(* extractors on a page; CrawlSpec runs handleWebCrawl (src/src/index.ts   *)
(* and src/unnamed/part_002) or renderPage on a url, and ReportSpec        *)
(* applies the formatting step of the handler to an analysis result.       *)
(***************************************************************************)
EXTENDS Integers, Sequences, FiniteSets, TLC

(***************************************************************************)
(* Bounds of the model.                                                    *)
(***************************************************************************)
\* the longest extracted link list
MaxLinks == 2

(***************************************************************************)
(* Strings.                                                                *)
(***************************************************************************)
\* the characters /\s/ matches and String.prototype.trim removes
IsSpace(c) == c \in {" ", "\t", "\n"}

UpperChars == <<"A","B","C","D","E","F","G","H","I","J","K","L","M",
                "N","O","P","Q","R","S","T","U","V","W","X","Y","Z">>

LowerChars == <<"a","b","c","d","e","f","g","h","i","j","k","l","m",
                "n","o","p","q","r","s","t","u","v","w","x","y","z">>

toLowerChar(c) ==
  IF \E i \in 1..Len(UpperChars) : UpperChars[i] = c
  THEN LowerChars[CHOOSE i \in 1..Len(UpperChars) : UpperChars[i] = c]
  ELSE c

\* String.prototype.toLowerCase
toLowerCase(s) == [i \in 1..Len(s) |-> toLowerChar(s[i])]

\* String.prototype.trim
trim(s) ==
  IF \A i \in 1..Len(s) : IsSpace(s[i])
  THEN << >>
  ELSE LET first == CHOOSE i \in 1..Len(s) :
                      /\ ~IsSpace(s[i])
                      /\ \A j \in 1..(i-1) : IsSpace(s[j])
           last  == CHOOSE i \in 1..Len(s) :
                      /\ ~IsSpace(s[i])
                      /\ \A j \in (i+1)..Len(s) : IsSpace(s[j])
       IN SubSeq(s, first, last)

\* String.prototype.includes: needle occurs in hay as a substring
includes(hay, needle) ==
  \E i \in 0..(Len(hay) - Len(needle)) : SubSeq(hay, i + 1, i + Len(needle)) = needle

\* the first position >= i of s that holds no whitespace (Len(s)+1 if none)
RECURSIVE SkipSpace(_, _)
SkipSpace(s, i) ==
  IF i > Len(s) \/ ~IsSpace(s[i]) THEN i ELSE SkipSpace(s, i + 1)

RECURSIVE splitFrom(_, _, _, _)
splitFrom(s, i, cur, acc) ==
  IF i > Len(s) THEN Append(acc, cur)
  ELSE IF IsSpace(s[i]) THEN splitFrom(s, SkipSpace(s, i), << >>, Append(acc, cur))
  ELSE splitFrom(s, i + 1, Append(cur, s[i]), acc)

\* String.prototype.split(/\s+/): a leading or trailing run of whitespace
\* yields an empty first or last piece, and "" splits into [""]
split(s) == splitFrom(s, 1, << >>, << >>)

\* a variant of slice that takes every element: without the bounding
wholeArray(s, end) == s

\* Array.prototype.slice(0, end) for end >= 0
slice(s, end) == SubSeq(s, 1, IF end < Len(s) THEN end ELSE Len(s))


(***************************************************************************)
(* Results.                                                                *)
(*  queryInterpretation is the string prefix ++ query ++ suffix, where     *)
(*  query is the embedded user query (a character sequence) and prefix and *)
(*  suffix are literal text.                                               *)
(***************************************************************************)
Interpretation(prefix, query, suffix) ==
  [prefix |-> prefix, query |-> query, suffix |-> suffix]

LinkAnalysisResult(relevantLinks, totalAnalyzed, queryInterpretation) ==
  [relevantLinks |-> relevantLinks,
   totalAnalyzed |-> totalAnalyzed,
   queryInterpretation |-> queryInterpretation]

\* { ...link, relevanceScore, reasoning }
AnalyzedLink(link, relevanceScore, reasoning) ==
  [url |-> link.url, text |-> link.text, type |-> link.type,
   relevanceScore |-> relevanceScore, reasoning |-> reasoning]

\* the place of x in the sorted sequence s: behind every element whose score
\* is not lower (the comparator b.relevanceScore - a.relevanceScore of a
\* stable sort keeps x behind the elements it ties with)
RECURSIVE insertByScore(_, _)
insertByScore(s, x) ==
  IF s = << >> THEN <<x>>
  ELSE IF Head(s).relevanceScore >= x.relevanceScore
       THEN <<Head(s)>> \o insertByScore(Tail(s), x)
       ELSE <<x>> \o s

RECURSIVE sortFrom(_, _)
sortFrom(s, acc) ==
  IF s = << >> THEN acc ELSE sortFrom(Tail(s), insertByScore(acc, Head(s)))

\* a variant of the sort that leaves the order as it is
unsorted(s) == s

\* Array.prototype.sort((a, b) => b.relevanceScore - a.relevanceScore)
sortByScoreDesc(s) == sortFrom(s, << >>)

(***************************************************************************)
(* fallbackTextAnalysis.                                                   *)
(***************************************************************************)
\* score += 0.4 for a query word found in the link text
TextWordScore == 40
\* score += 0.3 for a query word found in the url
UrlWordScore == 30
\* score += 0.3 when the text holds the whole query
TextPhraseBonus == 30
\* score += 0.2 when the url holds the whole query
UrlPhraseBonus == 20
\* Math.min(1.0, score)
ScoreCap == 100
\* the default minThreshold, 0.1
DefaultThreshold == 10
\* the threshold of a short query, 0.05
ShortQueryThreshold == 5
\* a query word counts when word.length > 2
MinWordLength == 2

\* queryLower.split(/\s+/).filter((word) => word.length > 2)
RECURSIVE longWords(_)
longWords(words) ==
  IF words = << >> THEN << >>
  ELSE IF Len(Head(words)) > MinWordLength
       THEN <<Head(words)>> \o longWords(Tail(words))
       ELSE longWords(Tail(words))

\* a variant of the loop that counts a word said twice once
RECURSIVE wordScoreOnce(_, _, _)
wordScoreOnce(queryWords, textLower, urlLower) ==
  IF queryWords = << >> THEN 0
  ELSE IF \E k \in 2..Len(queryWords) : queryWords[k] = Head(queryWords)
  THEN wordScoreOnce(Tail(queryWords), textLower, urlLower)
  ELSE (IF includes(textLower, Head(queryWords)) THEN TextWordScore ELSE 0)
     + (IF includes(urlLower, Head(queryWords)) THEN UrlWordScore ELSE 0)
     + wordScoreOnce(Tail(queryWords), textLower, urlLower)

\* the loop over queryWords
RECURSIVE wordScore(_, _, _)
wordScore(queryWords, textLower, urlLower) ==
  IF queryWords = << >> THEN 0
  ELSE (IF includes(textLower, Head(queryWords)) THEN TextWordScore ELSE 0)
     + (IF includes(urlLower, Head(queryWords)) THEN UrlWordScore ELSE 0)
     + wordScore(Tail(queryWords), textLower, urlLower)

min(a, b) == IF a < b THEN a ELSE b
max(a, b) == IF a > b THEN a ELSE b

\* a variant of the score that gives half the bonus for the query in the url
scoreOfHalfUrlBonus(textLower, urlLower, queryLower) ==
  min(ScoreCap,
      wordScore(longWords(split(queryLower)), textLower, urlLower)
      + (IF includes(textLower, queryLower) THEN TextPhraseBonus ELSE 0)
      + (IF includes(urlLower, queryLower) THEN UrlPhraseBonus \div 2 ELSE 0))

\* the score of a link from its lower-cased text and url and the lower-cased
\* query
scoreOf(textLower, urlLower, queryLower) ==
  min(ScoreCap,
      wordScore(longWords(split(queryLower)), textLower, urlLower)
      + (IF includes(textLower, queryLower) THEN TextPhraseBonus ELSE 0)
      + (IF includes(urlLower, queryLower) THEN UrlPhraseBonus ELSE 0))

\* a variant that matches against the text as written, not lower-cased
scoreOfRawText(link, query) ==
  scoreOf(link.text, toLowerCase(link.url), toLowerCase(query))

\* the score the map callback computes for one link
fallbackScore(link, query) ==
  scoreOf(toLowerCase(link.text), toLowerCase(link.url), toLowerCase(query))

\* the object the map callback returns
fallbackLink(link, score) ==
  AnalyzedLink(link, score,
               IF score > 0 THEN "Text matching fallback analysis" ELSE "No text match found")

\* links.map(...)
fallbackMap(links, query) ==
  [i \in 1..Len(links) |-> fallbackLink(links[i], fallbackScore(links[i], query))]

\* a variant of the filter that keeps a score equal to the threshold:
\* relevanceScore >= minThreshold
RECURSIVE atOrAboveThreshold(_, _)
atOrAboveThreshold(analyzed, minThreshold) ==
  IF analyzed = << >> THEN << >>
  ELSE IF Head(analyzed).relevanceScore >= minThreshold
       THEN <<Head(analyzed)>> \o atOrAboveThreshold(Tail(analyzed), minThreshold)
       ELSE atOrAboveThreshold(Tail(analyzed), minThreshold)

\* .filter((link) => link.relevanceScore > minThreshold)
RECURSIVE aboveThreshold(_, _)
aboveThreshold(analyzed, minThreshold) ==
  IF analyzed = << >> THEN << >>
  ELSE IF Head(analyzed).relevanceScore > minThreshold
       THEN <<Head(analyzed)>> \o aboveThreshold(Tail(analyzed), minThreshold)
       ELSE aboveThreshold(Tail(analyzed), minThreshold)

fallbackTextAnalysis(links, query, minThreshold) ==
  LinkAnalysisResult(
    sortByScoreDesc(aboveThreshold(fallbackMap(links, query), minThreshold)),
    Len(links),
    Interpretation("Fallback text analysis for: \"", query, "\""))

(***************************************************************************)
(* The text of a model response, as a sequence of lexical tokens.  A token *)
(* is a record [k, s, pad, n]:                                             *)
(*   k = "punct"  one of { } [ ] , :              (s is the character)     *)
(*   k = "fence"  a code fence (three backquotes)                          *)
(*   k = "id"     a bare word [a-zA-Z_][a-zA-Z0-9_]*   (s is the word)     *)
(*   k = "str"    a quoted string: s is its content without the           *)
(*                surrounding whitespace, pad says whether it has some     *)
(*   k = "num"    a number, n its value in hundredths                      *)
(* Whitespace between tokens is not represented: every pattern of the code *)
(* allows \s* between the tokens it matches.                               *)
(***************************************************************************)
Punct(c) == [k |-> "punct", s |-> c, pad |-> FALSE, n |-> 0]
Fence == [k |-> "fence", s |-> "", pad |-> FALSE, n |-> 0]
Id(w) == [k |-> "id", s |-> w, pad |-> FALSE, n |-> 0]
Str(w) == [k |-> "str", s |-> w, pad |-> FALSE, n |-> 0]
PaddedStr(w) == [k |-> "str", s |-> w, pad |-> TRUE, n |-> 0]
Num(hundredths) == [k |-> "num", s |-> "", pad |-> FALSE, n |-> hundredths]

IsPunct(tok, c) == tok.k = "punct" /\ tok.s = c

(***************************************************************************)
(* JSON values: a record [ty, s, pad, n, items, members].                  *)
(*   ty = "object": members is the sequence of its [key, value] pairs      *)
(*   ty = "array":  items is the sequence of its elements                  *)
(*   ty = "string", "number", "true", "false", "null", "undefined"         *)
(***************************************************************************)
JsonUndefined ==
  [ty |-> "undefined", s |-> "", pad |-> FALSE, n |-> 0, items |-> << >>, members |-> << >>]
JsonLiteral(w) == [JsonUndefined EXCEPT !.ty = w]
JsonString(tok) == [JsonUndefined EXCEPT !.ty = "string", !.s = tok.s, !.pad = tok.pad]
JsonNumber(hundredths) == [JsonUndefined EXCEPT !.ty = "number", !.n = hundredths]
JsonArray(items) == [JsonUndefined EXCEPT !.ty = "array", !.items = items]
JsonObject(members) == [JsonUndefined EXCEPT !.ty = "object", !.members = members]
Member(key, value) == [key |-> key, value |-> value]

\* obj.key: the value of the last member named key, undefined when there is
\* none or obj is a primitive or an array
RECURSIVE lookup(_, _)
lookup(members, key) ==
  IF members = << >> THEN JsonUndefined
  ELSE LET last == members[Len(members)]
       IN IF last.key = key THEN last.value
          ELSE lookup(SubSeq(members, 1, Len(members) - 1), key)

get(obj, key) == IF obj.ty = "object" THEN lookup(obj.members, key) ELSE JsonUndefined

\* typeof v === 'number'
IsNumber(v) == v.ty = "number"
\* typeof v === 'string'
IsString(v) == v.ty = "string"

(***************************************************************************)
(* JSON.parse on tokens: a parser with an explicit stack of the objects    *)
(* and arrays that are open.  Its state is [i, mode, stack, value]: i the  *)
(* position, value the value just read, and mode what comes next:          *)
(*   "value"  a value            "key"    a key and its colon              *)
(*   "attach" value was read     "after"  a comma or a closing bracket     *)
(*   "done"   value is the whole text       "fail"   a SyntaxError         *)
(***************************************************************************)
Frame(ty) == [ty |-> ty, key |-> "", members |-> << >>, items |-> << >>]

ParseStart ==
  [i |-> 1, mode |-> "value", stack |-> << >>, value |-> JsonUndefined]

ParseFail == [ParseStart EXCEPT !.mode = "fail"]

\* a value of width tokens was read
readValue(ps, value, width) ==
  [ps EXCEPT !.i = @ + width, !.mode = "attach", !.value = value]

\* an object or an array opens
openFrame(ps, ty, mode) ==
  [ps EXCEPT !.i = @ + 1, !.mode = mode, !.stack = Append(@, Frame(ty))]

\* the innermost object or array closes: it is the value read
closeFrame(ps, value) ==
  [ps EXCEPT !.i = @ + 1, !.mode = "attach", !.value = value,
             !.stack = SubSeq(@, 1, Len(@) - 1)]

topFrame(ps) == ps.stack[Len(ps.stack)]

\* the value read becomes a member or an element of the innermost frame
attachValue(t, ps) ==
  IF Len(ps.stack) = 0
  THEN [ps EXCEPT !.mode = IF ps.i = Len(t) + 1 THEN "done" ELSE "fail"]
  ELSE IF topFrame(ps).ty = "object"
  THEN [ps EXCEPT !.mode = "after",
                  !.stack[Len(ps.stack)].members = Append(@, Member(topFrame(ps).key, ps.value))]
  ELSE [ps EXCEPT !.mode = "after", !.stack[Len(ps.stack)].items = Append(@, ps.value)]

\* a value is expected at token tok, which tok2 follows
valueStep(ps, tok, tok2) ==
  IF IsPunct(tok, "{")
  THEN IF IsPunct(tok2, "}") THEN readValue(ps, JsonObject(<< >>), 2)
       ELSE openFrame(ps, "object", "key")
  ELSE IF IsPunct(tok, "[")
  THEN IF IsPunct(tok2, "]") THEN readValue(ps, JsonArray(<< >>), 2)
       ELSE openFrame(ps, "array", "value")
  ELSE IF tok.k = "str" THEN readValue(ps, JsonString(tok), 1)
  ELSE IF tok.k = "num" THEN readValue(ps, JsonNumber(tok.n), 1)
  ELSE IF tok.k = "id" /\ tok.s \in {"true", "false", "null"}
  THEN readValue(ps, JsonLiteral(tok.s), 1)
  ELSE ParseFail

\* a key and its colon are expected
keyStep(ps, tok, tok2) ==
  IF tok.k = "str" /\ IsPunct(tok2, ":")
  THEN [ps EXCEPT !.i = @ + 2, !.mode = "value", !.stack[Len(ps.stack)].key = tok.s]
  ELSE ParseFail

\* a comma or the closing bracket of the innermost frame is expected
afterStep(ps, tok) ==
  IF IsPunct(tok, ",")
  THEN [ps EXCEPT !.i = @ + 1, !.mode = IF topFrame(ps).ty = "object" THEN "key" ELSE "value"]
  ELSE IF IsPunct(tok, "}") /\ topFrame(ps).ty = "object"
  THEN closeFrame(ps, JsonObject(topFrame(ps).members))
  ELSE IF IsPunct(tok, "]") /\ topFrame(ps).ty = "array"
  THEN closeFrame(ps, JsonArray(topFrame(ps).items))
  ELSE ParseFail

\* the token at position i, or an end marker behind the text
EndOfText == [k |-> "end", s |-> "", pad |-> FALSE, n |-> 0]
tokenAt(t, i) == IF i <= Len(t) THEN t[i] ELSE EndOfText

\* one step of the parser
parseStep(t, ps) ==
  IF ps.mode = "attach" THEN attachValue(t, ps)
  ELSE IF ps.i > Len(t) THEN ParseFail
  ELSE IF ps.mode = "value" THEN valueStep(ps, t[ps.i], tokenAt(t, ps.i + 1))
  ELSE IF ps.mode = "key" THEN keyStep(ps, t[ps.i], tokenAt(t, ps.i + 1))
  ELSE afterStep(ps, t[ps.i])

RECURSIVE parseFrom(_, _)
parseFrom(t, ps) ==
  IF ps.mode \in {"done", "fail"} THEN ps ELSE parseFrom(t, parseStep(t, ps))

\* JSON.parse(text): [ok, value]; ok = FALSE is a SyntaxError
parseOutcome(end) == [ok |-> end.mode = "done", value |-> end.value]

JSONparse(t) == parseOutcome(parseFrom(t, ParseStart))

(***************************************************************************)
(* JSON.stringify of a value, as tokens.                                   *)
(***************************************************************************)
RECURSIVE stringifyValue(_)
RECURSIVE stringifyMembers(_)
RECURSIVE stringifyItems(_)

\* a property whose value is undefined is left out
RECURSIVE definedMembers(_)
definedMembers(members) ==
  IF members = << >> THEN << >>
  ELSE IF Head(members).value.ty = "undefined" THEN definedMembers(Tail(members))
  ELSE <<Head(members)>> \o definedMembers(Tail(members))

stringifyMembers(members) ==
  IF members = << >> THEN << >>
  ELSE <<Str(Head(members).key), Punct(":")>> \o stringifyValue(Head(members).value)
       \o (IF Len(members) > 1 THEN <<Punct(",")>> ELSE << >>)
       \o stringifyMembers(Tail(members))

stringifyItems(items) ==
  IF items = << >> THEN << >>
  ELSE stringifyValue(Head(items))
       \o (IF Len(items) > 1 THEN <<Punct(",")>> ELSE << >>)
       \o stringifyItems(Tail(items))

\* an undefined array element is written as null
stringifyValue(v) ==
  IF v.ty = "object"
  THEN <<Punct("{")>> \o stringifyMembers(definedMembers(v.members)) \o <<Punct("}")>>
  ELSE IF v.ty = "array" THEN <<Punct("[")>> \o stringifyItems(v.items) \o <<Punct("]")>>
  ELSE IF v.ty = "string" THEN <<[Str(v.s) EXCEPT !.pad = v.pad]>>
  ELSE IF v.ty = "number" THEN <<Num(v.n)>>
  ELSE IF v.ty = "undefined" THEN <<Id("null")>>
  ELSE <<Id(v.ty)>>

\* a string, or the undefined that JSON.stringify(undefined) returns
Text(tokens) == [defined |-> TRUE, tokens |-> tokens]
UndefinedText == [defined |-> FALSE, tokens |-> << >>]

JSONstringify(v) == IF v.ty = "undefined" THEN UndefinedText ELSE Text(stringifyValue(v))

(***************************************************************************)
(* parseAIResponse.                                                        *)
(***************************************************************************)
\* the admission floor: score >= 0.2
AdmissionFloor == 20
\* one whole unit of an index or a score, in hundredths
One == 100

NoMatch == [found |-> FALSE, tokens |-> << >>]
Match(tokens) == [found |-> TRUE, tokens |-> tokens]

Minimum(S) == CHOOSE x \in S : \A y \in S : x <= y
Maximum(S) == CHOOSE x \in S : \A y \in S : y <= x

openBraces(t) == {i \in 1..Len(t) : IsPunct(t[i], "{")}
closeBracesAfter(t, first) == {i \in (first + 1)..Len(t) : IsPunct(t[i], "}")}

\* the span from the { at first to the last } behind it
spanFrom(t, first) ==
  IF closeBracesAfter(t, first) = {} THEN NoMatch
  ELSE Match(SubSeq(t, first, Maximum(closeBracesAfter(t, first))))

\* cleanResponse.match(/\{[\s\S]*\}/): from the first { to the last }
braceMatch(t) == IF openBraces(t) = {} THEN NoMatch ELSE spanFrom(t, Minimum(openBraces(t)))

\* where the object of the code block that the fence at i opens would start:
\* behind the fence and an optional word json
blockBodyStart(t, i) ==
  IF i + 2 <= Len(t) /\ t[i + 1] = Id("json") /\ IsPunct(t[i + 2], "{") THEN i + 2 ELSE i + 1

\* the } behind start that a fence follows
blockEnds(t, start) ==
  {e \in (start + 1)..(Len(t) - 1) : IsPunct(t[e], "}") /\ t[e + 1].k = "fence"}

\* the fences that open a code block holding an object
blockStarts(t) ==
  {i \in 1..Len(t) :
     /\ t[i].k = "fence"
     /\ blockBodyStart(t, i) <= Len(t)
     /\ IsPunct(t[blockBodyStart(t, i)], "{")
     /\ blockEnds(t, blockBodyStart(t, i)) # {}}

blockFrom(t, start) == Match(SubSeq(t, start, Minimum(blockEnds(t, start))))

\* cleanResponse.match(/```(?:json)?\s*(\{[\s\S]*?\})\s*```/): group 1 of the
\* leftmost code block that holds an object, up to the first } a fence follows
codeBlockMatch(t) ==
  IF blockStarts(t) = {} THEN NoMatch
  ELSE blockFrom(t, blockBodyStart(t, Minimum(blockStarts(t))))

\* if (!jsonMatch) { ... codeBlockMatch ... }
orCodeBlock(t, match) == IF match.found THEN match ELSE codeBlockMatch(t)

\* jsonMatch after both patterns were tried
jsonMatch(t) == orCodeBlock(t, braceMatch(t))

\* a variant of the first replace that leaves every comma in place
keepCommas(t) == t

\* .replace(/,(\s*[}\]])/g, '$1'): drop a comma that a } or ] follows
RECURSIVE removeTrailingCommas(_)
removeTrailingCommas(t) ==
  IF t = << >> THEN << >>
  ELSE IF /\ IsPunct(t[1], ",")
          /\ Len(t) > 1
          /\ (IsPunct(t[2], "}") \/ IsPunct(t[2], "]"))
       THEN removeTrailingCommas(Tail(t))
       ELSE <<t[1]>> \o removeTrailingCommas(Tail(t))

\* .replace(/([{,]\s*)([a-zA-Z_][a-zA-Z0-9_]*)\s*:/g, '$1"$2":'): quote a bare
\* word that stands between { or , and a colon
quoteKeys(t) ==
  [i \in 1..Len(t) |->
     IF /\ t[i].k = "id"
        /\ i > 1 /\ (IsPunct(t[i - 1], "{") \/ IsPunct(t[i - 1], ","))
        /\ i < Len(t) /\ IsPunct(t[i + 1], ":")
     THEN Str(t[i].s) ELSE t[i]]

\* .replace(/:\s*([a-zA-Z_][a-zA-Z0-9_]*)\s*([,}])/g, ':"$1"$2'): quote a bare
\* word that stands between a colon and , or }
quoteValues(t) ==
  [i \in 1..Len(t) |->
     IF /\ t[i].k = "id"
        /\ i > 1 /\ IsPunct(t[i - 1], ":")
        /\ i < Len(t) /\ (IsPunct(t[i + 1], ",") \/ IsPunct(t[i + 1], "}"))
     THEN Str(t[i].s) ELSE t[i]]

fixedJson(t) == quoteValues(quoteKeys(removeTrailingCommas(t)))

\* the second JSON.parse, of the repaired text
secondParse(second) == [ok |-> second.ok, value |-> second.value, parses |-> 2]

\* a variant of the catch block that rethrows without a repair
neverRepaired(t, first) == [ok |-> first.ok, value |-> first.value, parses |-> 1]

\* the catch block of the first JSON.parse
repairIfFailed(t, first) ==
  IF first.ok THEN [ok |-> TRUE, value |-> first.value, parses |-> 1]
  ELSE secondParse(JSONparse(fixedJson(t)))

\* parsed: JSON.parse(jsonMatch[0]) and, when that throws, JSON.parse(fixedJson);
\* parses counts the calls of JSON.parse
parseWithRepair(t) == repairIfFailed(t, JSONparse(t))

\* what originalLinks[linkIndex] spreads into the analyzed link when linkIndex
\* is no array index: nothing, so url, text and type are missing
UndefinedLink == [url |-> <<"undefined">>, text |-> <<"undefined">>, type |-> "undefined"]

\* originalLinks[linkIndex] for linkIndex = index - 1, index in hundredths
originalLinkAt(originalLinks, index) ==
  IF index % One = 0 THEN originalLinks[index \div One] ELSE UndefinedLink

\* a variant without the clamp: the score as the model gave it
unclamped(score) == score

\* Math.max(0, Math.min(1, score)); a score that JSON.parse produced is never
\* NaN, so the isNaN test before it changes nothing
clampScore(score) == max(0, min(One, score))

\* typeof v === 'string' && v.trim() ? v.trim() : placeholder
trimmedOr(v, placeholder) == IF IsString(v) /\ v.s # "" THEN v.s ELSE placeholder

reasoningOf(linkAnalysis) == trimmedOr(get(linkAnalysis, "reasoning"), "No reasoning provided")

\* linkIndex >= 0 && linkIndex < originalLinks.length
indexInRange(index, originalLinks) ==
  index - One >= 0 /\ index - One < One * Len(originalLinks)

\* a variant of the floor that leaves out a score of exactly 0.2
admitAboveFloor(originalLink, score, reasoning) ==
  IF score > AdmissionFloor THEN <<AnalyzedLink(originalLink, score, reasoning)>> ELSE << >>

\* if (score >= 0.2) relevantLinks.push(analyzedLink)
admit(originalLink, score, reasoning) ==
  IF score >= AdmissionFloor THEN <<AnalyzedLink(originalLink, score, reasoning)>> ELSE << >>

\* the body of the loop for one entry that is not null: what it pushes
entryLinks(linkAnalysis, index, relevanceScore, originalLinks) ==
  IF ~IsNumber(index) \/ ~IsNumber(relevanceScore) THEN << >>
  ELSE IF ~indexInRange(index.n, originalLinks) THEN << >>
  ELSE admit(originalLinkAt(originalLinks, index.n), clampScore(relevanceScore.n),
             reasoningOf(linkAnalysis))

\* the loop over links: [threw, relevantLinks]; reading a property of a null
\* entry throws a TypeError
RECURSIVE processLinks(_, _, _)
processLinks(links, originalLinks, relevantLinks) ==
  IF links = << >> THEN [threw |-> FALSE, relevantLinks |-> relevantLinks]
  ELSE IF Head(links).ty = "null" THEN [threw |-> TRUE, relevantLinks |-> << >>]
  ELSE processLinks(Tail(links), originalLinks,
         relevantLinks \o entryLinks(Head(links), get(Head(links), "index"),
                                     get(Head(links), "relevanceScore"), originalLinks))

\* Array.isArray(v) ? v : []
arrayOrEmpty(v) == IF v.ty = "array" THEN v.items ELSE << >>

\* the queryInterpretation of the parsed object, trimmed, or the placeholder
interpretationOf(parsed) ==
  trimmedOr(get(parsed, "queryInterpretation"), "Query analysis not provided")

\* the Error parseAIResponse throws from its catch block (line 254)
ParseThrew(parses) ==
  [threw |-> TRUE, relevantLinks |-> << >>, queryInterpretation |-> "", parses |-> parses]

\* lines 239-251: the sort and the return
sortedResult(processed, queryInterpretation, parses) ==
  IF processed.threw THEN ParseThrew(parses)
  ELSE [threw |-> FALSE,
        relevantLinks |-> sortByScoreDesc(processed.relevantLinks),
        queryInterpretation |-> queryInterpretation,
        parses |-> parses]

\* lines 201-251, on the parsed value
resultOfParsed(parsed, originalLinks) ==
  IF ~parsed.ok THEN ParseThrew(parsed.parses)
  ELSE sortedResult(
         processLinks(arrayOrEmpty(get(parsed.value, "links")), originalLinks, << >>),
         interpretationOf(parsed.value), parsed.parses)

\* lines 184-251, on the match
resultOfMatch(match, originalLinks) ==
  IF ~match.found THEN ParseThrew(0)
  ELSE resultOfParsed(parseWithRepair(match.tokens), originalLinks)

\* parseAIResponse(aiResponse, originalLinks): [threw, relevantLinks,
\* queryInterpretation, parses]; aiResponse.trim() throws on undefined
parseAIResponse(aiResponse, originalLinks) ==
  IF ~aiResponse.defined THEN ParseThrew(0)
  ELSE resultOfMatch(jsonMatch(aiResponse.tokens), originalLinks)

(***************************************************************************)
(* The inputs the model draws from.                                        *)
(***************************************************************************)
\* the most entries in a generated model response
MaxEntries == 2
\* maxLinks: number = 20
DefaultMaxLinks == 20
\* content.pageText.substring(0, 500)
SummaryLength == 500

\* "API Docs" -> https://x.io/api
LinkApi ==
  [url  |-> <<"h","t","t","p","s",":","/","/","x",".","i","o","/","a","p","i">>,
   text |-> <<"A","P","I"," ","D","o","c","s">>,
   type |-> "internal"]
\* "Blog" -> https://x.io/blog
LinkBlog ==
  [url  |-> <<"h","t","t","p","s",":","/","/","x",".","i","o","/","b","l","o","g">>,
   text |-> <<"B","l","o","g">>,
   type |-> "internal"]
\* "FAQ" -> https://y.org/faq
LinkFaq ==
  [url  |-> <<"h","t","t","p","s",":","/","/","y",".","o","r","g","/","f","a","q">>,
   text |-> <<"F","A","Q">>,
   type |-> "external"]

LinkPool == {LinkApi, LinkBlog, LinkFaq}

\* the link lists an extractor can hand over: no two links share a url
RECURSIVE LinkLists(_)
LinkLists(n) ==
  IF n = 0 THEN {<< >>}
  ELSE LET shorter == LinkLists(n - 1)
       IN shorter \cup
          {Append(l, x) : <<l, x>> \in
             {p \in shorter \X LinkPool :
                Len(p[1]) = n - 1 /\ \A i \in 1..Len(p[1]) : p[1][i].url # p[2].url}}

Queries ==
  { << >>,                                           \* ""
    <<" ", " ">>,                                    \* "  "
    <<"i","o">>,                                     \* "io": no word longer than 2
    <<"A","P","I">>,                                 \* "API"
    <<" ","a","p","i"," "," ","d","o","c","s"," ">>, \* " api  docs "
    <<"d","o","c","s"," ","b","l","o","g">>,         \* "docs blog"
    <<"a","p","i"," ","d","o","c","s"," ","f","a","q">> } \* "api docs faq"

MaxLinksValues == (0..MaxLinks) \cup {DefaultMaxLinks}

Entry(index, relevanceScore, reasoning) ==
  JsonObject(<<Member("index", index), Member("relevanceScore", relevanceScore),
               Member("reasoning", reasoning)>>)

\* the entries a generated response is made of
EntryPool ==
  { Entry(JsonNumber(100), JsonNumber(90), JsonString(Str("match"))),
    Entry(JsonNumber(200), JsonNumber(150), JsonString(PaddedStr(""))),
    Entry(JsonNumber(100), JsonNumber(19), JsonUndefined),
    Entry(JsonNumber(200), JsonNumber(20), JsonString(PaddedStr("edge"))),
    Entry(JsonNumber(300), JsonNumber(50), JsonString(Str("third"))),
    Entry(JsonNumber(150), JsonNumber(50), JsonString(Str("between"))) }

RECURSIVE EntryLists(_)
EntryLists(n) ==
  IF n = 0 THEN {<< >>}
  ELSE LET shorter == EntryLists(n - 1)
       IN shorter \cup {Append(l, x) : <<l, x>> \in {p \in shorter \X EntryPool : Len(p[1]) = n - 1}}

\* { "queryInterpretation": ..., "links": [...] }
ResponseObject(queryInterpretation, entries) ==
  JsonObject(<<Member("queryInterpretation", queryInterpretation),
               Member("links", JsonArray(entries))>>)

GeneratedTexts ==
  {stringifyValue(ResponseObject(JsonString(PaddedStr("docs wanted")), entries)) :
     entries \in EntryLists(MaxEntries)}

\* {links:[{index:1,relevanceScore:0.9,reasoning:"match"},]}
RepairableText ==
  <<Punct("{"), Id("links"), Punct(":"), Punct("["), Punct("{"),
    Id("index"), Punct(":"), Num(100), Punct(","),
    Id("relevanceScore"), Punct(":"), Num(90), Punct(","),
    Id("reasoning"), Punct(":"), Str("match"), Punct("}"), Punct(","),
    Punct("]"), Punct("}")>>

\* {"links":[{"index":1,"relevanceScore":0.9,"reasoning":good}]}
BareValueText ==
  <<Punct("{"), Str("links"), Punct(":"), Punct("["), Punct("{"),
    Str("index"), Punct(":"), Num(100), Punct(","),
    Str("relevanceScore"), Punct(":"), Num(90), Punct(","),
    Str("reasoning"), Punct(":"), Id("good"), Punct("}"),
    Punct("]"), Punct("}")>>

OneGoodEntry == <<Entry(JsonNumber(100), JsonNumber(90), JsonString(Str("match")))>>

\* a fenced object and nothing else
FencedText ==
  <<Fence, Id("json")>>
  \o stringifyValue(ResponseObject(JsonString(Str("fenced")), OneGoodEntry))
  \o <<Fence>>

\* prose that holds braces, then a fenced object
ProseAndFencedText == <<Id("Note"), Punct("{"), Id("x"), Punct("}")>> \o FencedText

SpecialTexts ==
  { <<Id("Sorry")>>,                                  \* no object at all
    <<Punct("}"), Id("or"), Punct("{")>>,             \* no { before a }
    <<Punct("{"), Id("links"), Punct("["), Punct("}")>>,   \* beyond repair
    RepairableText,
    BareValueText,
    FencedText,
    ProseAndFencedText,
    \* {"links":[null]}
    stringifyValue(JsonObject(<<Member("links", JsonArray(<<JsonLiteral("null")>>))>>)),
    \* {"links":"none"}
    stringifyValue(JsonObject(<<Member("links", JsonString(Str("none")))>>)),
    \* entries that are skipped: a string index, index 0, index -1, a negative
    \* score, a number
    stringifyValue(ResponseObject(JsonString(PaddedStr("")),
      << Entry(JsonString(Str("1")), JsonNumber(90), JsonUndefined),
         Entry(JsonNumber(0), JsonNumber(90), JsonUndefined),
         Entry(JsonNumber(-100), JsonNumber(90), JsonUndefined),
         Entry(JsonNumber(200), JsonNumber(-50), JsonUndefined),
         JsonNumber(700) >>)) }

\* what ai.run does: it rejects ("throws"), resolves to undefined
\* ("undefined"), or resolves to an object whose response property is a
\* string ("string", with its text) or another value ("value")
AiThrows == [kind |-> "throws", text |-> << >>, value |-> JsonUndefined]
AiUndefined == [kind |-> "undefined", text |-> << >>, value |-> JsonUndefined]
AiString(text) == [kind |-> "string", text |-> text, value |-> JsonUndefined]
AiValue(value) == [kind |-> "value", text |-> << >>, value |-> value]

AiBehaviours ==
  {AiThrows, AiUndefined}
  \cup {AiString(t) : t \in GeneratedTexts \cup SpecialTexts}
  \cup {AiValue(JsonUndefined), AiValue(JsonNumber(500)),
        AiValue(ResponseObject(JsonString(Str("structured")), OneGoodEntry))}

ThePageText == <<"p","a","g","e">>
TheTitle == <<"T">>

(***************************************************************************)
(* analyzeLinksWithAI as a state machine.  An invocation runs from its     *)
(* entry to the await of ai.run (Invoke), and from the settling of that    *)
(* promise to its return (ModelResolves, ModelRejects).  The caller may    *)
(* invoke it a second time with the same arguments and the same model      *)
(* stub.                                                                   *)
(***************************************************************************)
VARIABLES
  ai,                \* the model binding: what ai.run does when called
  extractedContent,  \* the argument object: [links, pageText, title]
  userQuery,         \* the argument
  maxLinks,          \* the argument
  pc,                \* "idle", "awaitModel", "returned" or "raised"
  result,            \* the LinkAnalysisResult returned
  modelCalls,        \* the prompts sent to ai.run by this invocation
  fallbackCalls,     \* the thresholds fallbackTextAnalysis was called with
  parseCalls,        \* the number of JSON.parse calls of this invocation
  repeated,          \* whether this is the second invocation
  firstResult,       \* the result of the first invocation, once it returned
  page,              \* the rendered page an extractor is given
  crawl              \* the invocation of handleWebCrawl or renderPage

vars == <<ai, extractedContent, userQuery, maxLinks, pc, result, modelCalls,
          fallbackCalls, parseCalls, repeated, firstResult, page, crawl>>

\* a rendered page: the base url, and the <a> elements the link pattern
\* matches in the markup (kind "markup") or the flat list of urls (kind
\* "list"), the source of the page text as a sequence of segments, and what
\* the title pattern matches in the source
Page(kind, baseUrl, anchors, urls, source, title) ==
  [kind |-> kind, baseUrl |-> baseUrl, anchors |-> anchors, urls |-> urls,
   source |-> source, title |-> title]

NoTitle == [found |-> FALSE, text |-> << >>]

NoPage == Page("none", << >>, << >>, << >>, << >>, NoTitle)

NoResult == LinkAnalysisResult(<< >>, 0, Interpretation("", << >>, ""))

\* no handler is running
NoCrawl == [step |-> "none"]

Init ==
  /\ ai \in AiBehaviours
  /\ extractedContent \in
       {[links |-> l, pageText |-> ThePageText, title |-> TheTitle] : l \in LinkLists(MaxLinks)}
  /\ userQuery \in Queries
  /\ maxLinks \in MaxLinksValues
  /\ pc = "idle"
  /\ result = NoResult
  /\ modelCalls = << >>
  /\ fallbackCalls = << >>
  /\ parseCalls = 0
  /\ repeated = FALSE
  /\ firstResult = NoResult
  /\ page = NoPage
  /\ crawl = NoCrawl

\* a variant of the query check without the trim: !userQuery
isEmptyString(query) == Len(query) = 0

\* !userQuery || userQuery.trim().length === 0
isEmptyQuery(query) == Len(query) = 0 \/ Len(trim(query)) = 0

\* a variant of the link check that never takes the early exit
linksNeverMissing(linksToAnalyze) == FALSE

\* linksToAnalyze.length === 0
noLinksToAnalyze(linksToAnalyze) == Len(linksToAnalyze) = 0

\* a variant of the model call that asks a second time
aiRunTwice(calls, prompt) == calls \o <<prompt, prompt>>

\* await ai.run(model, { messages: [system, { role: 'user', content: prompt }] }):
\* the calls of the model binding after this one
aiRun(calls, prompt) == Append(calls, prompt)

\* userQuery.trim().split(/\s+/).length <= 2
isShortQuery(query) == Len(split(trim(query))) <= 2

\* createLinkAnalysisPrompt: the parts of the prompt that depend on the input
createLinkAnalysisPrompt(content, links, query) ==
  [userQuery   |-> query,
   pageTitle   |-> IF content.title = << >> THEN <<"U","n","k","n","o","w","n">>
                   ELSE content.title,
   pageSummary |-> SubSeq(content.pageText, 1, min(SummaryLength, Len(content.pageText))),
   totalLinks  |-> Len(links),
   linksList   |-> [i \in 1..Len(links) |-> [index |-> i, link |-> links[i]]]]

\* a variant in which the sort orders the caller's array in place: a stable
\* sort of the links by their score, the best first
RECURSIVE sortedInPlace(_, _)
sortedInPlace(links, query) ==
  IF links = << >> THEN << >>
  ELSE IF \E i \in 2..Len(links) :
            fallbackScore(links[i], query) > fallbackScore(links[1], query)
       THEN sortedInPlace(Tail(links) \o <<links[1]>>, query)
       ELSE <<links[1]>> \o sortedInPlace(Tail(links), query)

\* a variant in which the map callback of fallbackTextAnalysis writes the
\* score and the reasoning into the caller's links
scoredInPlace(links, query) == fallbackMap(links, query)

\* the argument array after the call: slice, map and filter each build a new
\* array and sort orders the new one, so the caller's array is as it was
linksAfterCall(links, query) == links

\* a variant of the catch block that handles a rejection of ai.run only
caughtRejection(error) == error = "rejected"

\* catch (error): every exception of the try block is caught
caught(error) == TRUE

\* a variant of the catch block that always uses the default threshold
defaultThreshold(query) == DefaultThreshold

\* the fallback of the catch block, with the threshold it is called with
catchThreshold(query) == IF isShortQuery(query) THEN ShortQueryThreshold ELSE DefaultThreshold

\* typeof response.response === 'string' ? response.response
\*                                       : JSON.stringify(response.response)
aiResponseText(response) ==
  IF response.kind = "string" THEN Text(response.text) ELSE JSONstringify(response.value)

\* what the try block behind the await comes to: it throws error, or returns
\* result after calling fallbackTextAnalysis with the thresholds fallbacks
Threw(error, parses) ==
  [threw |-> TRUE, error |-> error, result |-> NoResult, fallbacks |-> << >>,
   parses |-> parses]
Returned(returned, fallbacks, parses) ==
  [threw |-> FALSE, error |-> "", result |-> returned, fallbacks |-> fallbacks,
   parses |-> parses]

\* lines 80-84: the fallback result under the model's interpretation
enhanced(fallbackResult, queryInterpretation) ==
  [fallbackResult EXCEPT !.queryInterpretation =
     Interpretation(queryInterpretation, << >>, " (enhanced with text matching)")]

\* lines 87-91: the model's links, the number of links analyzed, the
\* model's interpretation
primaryResult(analysisResult, totalAnalyzed) ==
  LinkAnalysisResult(analysisResult.relevantLinks, totalAnalyzed,
                     Interpretation(analysisResult.queryInterpretation, << >>, ""))

\* lines 79-85: if (fallbackResult.relevantLinks.length > 0) return ...
augmented(analysisResult, fallbackResult, totalAnalyzed) ==
  Returned(IF Len(fallbackResult.relevantLinks) > 0
           THEN enhanced(fallbackResult, analysisResult.queryInterpretation)
           ELSE primaryResult(analysisResult, totalAnalyzed),
           <<ShortQueryThreshold>>, analysisResult.parses)

\* a variant of lines 77-91 without the augmentation of lines 77-85
afterParseNoAugment(analysisResult, linksToAnalyze, query) ==
  IF analysisResult.threw THEN Threw("Error", analysisResult.parses)
  ELSE Returned(primaryResult(analysisResult, Len(linksToAnalyze)), << >>,
                analysisResult.parses)

\* lines 77-91, on the result of parseAIResponse
afterParse(analysisResult, linksToAnalyze, query) ==
  IF analysisResult.threw THEN Threw("Error", analysisResult.parses)
  ELSE IF Len(analysisResult.relevantLinks) = 0 /\ isShortQuery(query)
  THEN augmented(analysisResult,
                 fallbackTextAnalysis(linksToAnalyze, query, ShortQueryThreshold),
                 Len(linksToAnalyze))
  ELSE Returned(primaryResult(analysisResult, Len(linksToAnalyze)), << >>,
                analysisResult.parses)

\* the try block behind the await (lines 73-91); reading response.response of
\* an undefined response throws a TypeError
afterModel(response, linksToAnalyze, query) ==
  IF response.kind = "undefined" THEN Threw("TypeError", 0)
  ELSE afterParse(parseAIResponse(aiResponseText(response), linksToAnalyze),
                  linksToAnalyze, query)

\* lines 28-56: the checks, the bounding and the call of ai.run
Invoke ==
  /\ pc = "idle" \/ (pc = "returned" /\ ~repeated)
  /\ repeated' = (pc = "returned")
  /\ firstResult' = IF pc = "returned" THEN result ELSE firstResult
  /\ fallbackCalls' = << >>
  /\ parseCalls' = 0
  /\ LET linksToAnalyze == slice(extractedContent.links, maxLinks)
     IN IF isEmptyQuery(userQuery)
        THEN /\ pc' = "returned"
             /\ result' = LinkAnalysisResult(<< >>, 0,
                            Interpretation("Empty query provided", << >>, ""))
             /\ modelCalls' = << >>
        ELSE IF noLinksToAnalyze(linksToAnalyze)
        THEN /\ pc' = "returned"
             /\ result' = LinkAnalysisResult(<< >>, 0,
                            Interpretation("No links found on the page to analyze", << >>, ""))
             /\ modelCalls' = << >>
        ELSE /\ pc' = "awaitModel"
             /\ result' = NoResult
             /\ modelCalls' = aiRun(<< >>, createLinkAnalysisPrompt(extractedContent,
                                       linksToAnalyze, userQuery))
  /\ UNCHANGED <<crawl, ai, extractedContent, userQuery, maxLinks, page>>

\* the catch block (lines 92-96), or the exception leaving the function
Recover(error, linksToAnalyze) ==
  IF caught(error)
  THEN /\ pc' = "returned"
       /\ result' = fallbackTextAnalysis(linksToAnalyze, userQuery, catchThreshold(userQuery))
       /\ fallbackCalls' = Append(fallbackCalls, catchThreshold(userQuery))
  ELSE /\ pc' = "raised"
       /\ result' = NoResult
       /\ fallbackCalls' = fallbackCalls

\* the return of the try block, or its exception
Settle(outcome, linksToAnalyze) ==
  /\ parseCalls' = outcome.parses
  /\ IF outcome.threw
     THEN Recover(outcome.error, linksToAnalyze)
     ELSE /\ pc' = "returned"
          /\ result' = outcome.result
          /\ fallbackCalls' = fallbackCalls \o outcome.fallbacks

\* ai.run resolves: lines 73-91, and the catch block when they throw
ModelResolves ==
  /\ pc = "awaitModel"
  /\ ai.kind # "throws"
  /\ Settle(afterModel(ai, slice(extractedContent.links, maxLinks), userQuery),
            slice(extractedContent.links, maxLinks))
  /\ extractedContent' =
       [extractedContent EXCEPT !.links = linksAfterCall(extractedContent.links, userQuery)]
  /\ UNCHANGED <<crawl, ai, userQuery, maxLinks, modelCalls, repeated, firstResult, page>>

\* ai.run rejects: the catch block
ModelRejects ==
  /\ pc = "awaitModel"
  /\ ai.kind = "throws"
  /\ Recover("rejected", slice(extractedContent.links, maxLinks))
  /\ extractedContent' =
       [extractedContent EXCEPT !.links = linksAfterCall(extractedContent.links, userQuery)]
  /\ UNCHANGED <<crawl, ai, userQuery, maxLinks, modelCalls, parseCalls, repeated, firstResult,
                 page>>

Next == Invoke \/ ModelResolves \/ ModelRejects

Spec == Init /\ [][Next]_vars


(***************************************************************************)
(* fallbackTextAnalysis on its own: the function is applied once to a link *)
(* list and a query, with a threshold from Thresholds.                     *)
(***************************************************************************)
\* thresholds below, between and equal to the scores the links can reach
Thresholds ==
  {0 - DefaultThreshold, 0, ShortQueryThreshold, DefaultThreshold, UrlPhraseBonus,
   TextWordScore, TextWordScore + UrlWordScore, ScoreCap}

\* the queries fallbackTextAnalysis is applied to: those of Queries, a word
\* written as one link shows it ("Docs"), a single letter ("g") and a word
\* said twice ("org org")
FallbackQueries ==
  Queries \cup {<<"D","o","c","s">>, <<"g">>, <<"o","r","g"," ","o","r","g">>}

FallbackInit ==
  /\ ai = AiThrows
  /\ extractedContent \in
       {[links |-> l, pageText |-> ThePageText, title |-> TheTitle] : l \in LinkLists(MaxLinks)}
  /\ userQuery \in FallbackQueries
  /\ maxLinks = DefaultMaxLinks
  /\ pc = "idle"
  /\ result = NoResult
  /\ modelCalls = << >>
  /\ fallbackCalls = << >>
  /\ parseCalls = 0
  /\ repeated = FALSE
  /\ firstResult = NoResult
  /\ page = NoPage
  /\ crawl = NoCrawl

\* fallbackTextAnalysis(links, query, minThreshold)
CallFallback ==
  /\ pc = "idle"
  /\ \E minThreshold \in Thresholds :
       /\ result' = fallbackTextAnalysis(extractedContent.links, userQuery, minThreshold)
       /\ fallbackCalls' = <<minThreshold>>
  /\ pc' = "returned"
  /\ UNCHANGED <<crawl, ai, extractedContent, userQuery, maxLinks, modelCalls, parseCalls,
                 repeated, firstResult, page>>

FallbackNext == CallFallback

FallbackSpec == FallbackInit /\ [][FallbackNext]_vars

(***************************************************************************)
(* Properties.                                                             *)
(***************************************************************************)
\* the query holds a character that is no whitespace
NonEmptyQuery == \E i \in 1..Len(userQuery) : ~IsSpace(userQuery[i])

\* the bounded link list holds a link
SomeLinkConsidered == maxLinks > 0 /\ Len(extractedContent.links) > 0

\* the invocation went through the catch block
FellBack ==
  /\ Len(fallbackCalls) = 1
  /\ result.queryInterpretation.prefix = "Fallback text analysis for: \""

\* C1: analyzeLinksWithAI never raises: whatever the query, the links,
\* maxLinks and the model call do (any text, a response that is no string, a
\* rejection), no exception leaves the invocation.
NeverRaises == pc # "raised"

\* C1: the model resolved with something parseAIResponse throws on, or with
\* undefined, and the invocation returned the fallback result
W_NeverRaises == pc = "returned" /\ ai.kind # "throws" /\ FellBack

\* C2: every relevanceScore of a returned result lies in [0, 1], on the
\* primary path, the short-query augmentation and the fallback alike.
ScoresInUnitInterval ==
  pc = "returned" =>
    \A i \in 1..Len(result.relevantLinks) :
      /\ result.relevantLinks[i].relevanceScore >= 0
      /\ result.relevantLinks[i].relevanceScore <= One

\* C2: the model scored a link 1.5 and the primary path returned it with 1
W_ScoresInUnitInterval ==
  /\ pc = "returned"
  /\ fallbackCalls = << >>
  /\ ai.kind = "string"
  /\ \E i \in 1..Len(ai.text) : ai.text[i] = Num(150)
  /\ \E i \in 1..Len(result.relevantLinks) : result.relevantLinks[i].relevanceScore = One

\* the number of whitespace-separated words of the trimmed query
WordCount == Len(split(trim(userQuery)))

\* C3: a non-empty query, a non-empty bounded list and a model call that
\* throws: the result is that of fallbackTextAnalysis on the bounded links,
\* called with 0.05 when the trimmed query has at most 2 words and with 0.1
\* otherwise, and its interpretation begins "Fallback text analysis for:".
FallbackWhenModelThrows ==
  (pc = "returned" /\ ai.kind = "throws" /\ NonEmptyQuery /\ SomeLinkConsidered) =>
    /\ fallbackCalls = <<IF WordCount <= 2 THEN 5 ELSE 10>>
    /\ result = fallbackTextAnalysis(SubSeq(extractedContent.links, 1,
                                            min(maxLinks, Len(extractedContent.links))),
                                     userQuery, fallbackCalls[1])
    /\ result.queryInterpretation.prefix = "Fallback text analysis for: \""

\* C3: the model threw on a query of two words and the fallback kept a link
W_FallbackWhenModelThrows ==
  /\ pc = "returned"
  /\ ai.kind = "throws"
  /\ WordCount = 2
  /\ fallbackCalls = <<ShortQueryThreshold>>
  /\ Len(result.relevantLinks) > 0

\* C4: an empty or whitespace-only query returns exactly
\* { relevantLinks: [], totalAnalyzed: 0, queryInterpretation: "Empty query
\* provided" }, for every link list and every maxLinks.
EmptyQueryResult ==
  (pc = "returned" /\ ~NonEmptyQuery) =>
    result = [relevantLinks |-> << >>, totalAnalyzed |-> 0,
              queryInterpretation |-> Interpretation("Empty query provided", << >>, "")]

\* C4: a query of blanks returned while there were links to analyze
W_EmptyQueryResult ==
  /\ pc = "returned"
  /\ Len(userQuery) > 0
  /\ ~NonEmptyQuery
  /\ SomeLinkConsidered
  /\ result.totalAnalyzed = 0

\* C5: a non-empty query on a content without links returns exactly
\* { relevantLinks: [], totalAnalyzed: 0, queryInterpretation: "No links
\* found on the page to analyze" }.
NoLinksResult ==
  (pc = "returned" /\ NonEmptyQuery /\ Len(extractedContent.links) = 0) =>
    result = [relevantLinks |-> << >>, totalAnalyzed |-> 0,
              queryInterpretation |->
                Interpretation("No links found on the page to analyze", << >>, "")]

\* C5: a non-empty query returned for a content without links
W_NoLinksResult ==
  /\ pc = "returned"
  /\ NonEmptyQuery
  /\ Len(extractedContent.links) = 0
  /\ maxLinks > 0
  /\ result.queryInterpretation.prefix = "No links found on the page to analyze"

\* C6: relevantLinks of a returned result is ordered by relevanceScore,
\* non-increasing, on every path and whatever order the model listed them in.
SortedByScore ==
  pc = "returned" =>
    \A i \in 1..(Len(result.relevantLinks) - 1) :
      result.relevantLinks[i].relevanceScore >= result.relevantLinks[i + 1].relevanceScore

\* C6: the model listed the link it scored 0.2 before the one it scored 0.9,
\* and the primary path returned both, the better one first
W_SortedByScore ==
  /\ pc = "returned"
  /\ fallbackCalls = << >>
  /\ ai.kind = "string"
  /\ \E i, j \in 1..Len(ai.text) : i < j /\ ai.text[i] = Num(20) /\ ai.text[j] = Num(90)
  /\ Len(result.relevantLinks) = 2
  /\ result.relevantLinks[1].relevanceScore = 90
  /\ result.relevantLinks[2].relevanceScore = 20

\* link i of the list given to fallbackTextAnalysis is among the links kept
Kept(i) ==
  \E j \in 1..Len(result.relevantLinks) :
    /\ result.relevantLinks[j].url = extractedContent.links[i].url
    /\ result.relevantLinks[j].relevanceScore =
         fallbackScore(extractedContent.links[i], userQuery)

\* C7: fallbackTextAnalysis keeps a link if and only if its score is
\* strictly greater than the threshold: every kept score exceeds the
\* threshold, a score equal to it is left out, and none above it is dropped.
KeptIffAboveThreshold ==
  pc = "returned" =>
    /\ \A i \in 1..Len(extractedContent.links) :
         Kept(i) <=> fallbackScore(extractedContent.links[i], userQuery) > fallbackCalls[1]
    /\ \A j \in 1..Len(result.relevantLinks) :
         result.relevantLinks[j].relevanceScore > fallbackCalls[1]
    /\ Len(result.relevantLinks) <= Len(extractedContent.links)

\* C7: a link that scores exactly the threshold is left out while another
\* link is kept
W_KeptIffAboveThreshold ==
  /\ pc = "returned"
  /\ fallbackCalls[1] > 0
  /\ \E i \in 1..Len(extractedContent.links) :
       /\ fallbackScore(extractedContent.links[i], userQuery) = fallbackCalls[1]
       /\ ~Kept(i)
  /\ Len(result.relevantLinks) = 1

\* C8: with a non-empty query and a link considered, totalAnalyzed is
\* min(maxLinks, number of extracted links) on every path, and no link at a
\* position beyond maxLinks is among relevantLinks.
BoundedByMaxLinks ==
  (pc = "returned" /\ NonEmptyQuery /\ SomeLinkConsidered) =>
    /\ result.totalAnalyzed =
         (IF maxLinks < Len(extractedContent.links) THEN maxLinks
          ELSE Len(extractedContent.links))
    /\ \A j \in 1..Len(result.relevantLinks) :
         \A i \in (maxLinks + 1)..Len(extractedContent.links) :
           result.relevantLinks[j].url # extractedContent.links[i].url

\* C8: two links were extracted, maxLinks is 1, the query matches the second
\* link, and the result counts 1 link
W_BoundedByMaxLinks ==
  /\ pc = "returned"
  /\ NonEmptyQuery
  /\ maxLinks = 1
  /\ Len(extractedContent.links) = 2
  /\ fallbackScore(extractedContent.links[2], userQuery) > DefaultThreshold
  /\ Len(fallbackCalls) = 1
  /\ result.totalAnalyzed = 1

\* C9: an invocation calls the model at most once: exactly once when the
\* query is non-empty and the bounded list is non-empty, not at all when an
\* early exit applies, and not again on the augmentation or the fallback path.
OneModelCall ==
  /\ Len(modelCalls) <= 1
  /\ pc # "idle" =>
       Len(modelCalls) = (IF NonEmptyQuery /\ SomeLinkConsidered THEN 1 ELSE 0)

\* C9: the augmentation path returned the links of the text matching, after
\* one model call
W_OneModelCall ==
  /\ pc = "returned"
  /\ ai.kind # "throws"
  /\ fallbackCalls = <<ShortQueryThreshold>>
  /\ result.queryInterpretation.suffix = " (enhanced with text matching)"
  /\ Len(modelCalls) = 1

TextHolds(i) == includes(extractedContent.links[i].text, userQuery)

\* some word of the lower-cased query longer than 2 characters occurs in s
HoldsWord(s) ==
  \E k \in 1..Len(longWords(split(toLowerCase(userQuery)))) :
    includes(s, longWords(split(toLowerCase(userQuery)))[k])

\* ignoring case, the text or the url of link j holds the query or one of
\* its words longer than 2 characters
MatchesLoosely(j) ==
  \/ includes(toLowerCase(extractedContent.links[j].text), toLowerCase(userQuery))
  \/ includes(toLowerCase(extractedContent.links[j].url), toLowerCase(userQuery))
  \/ HoldsWord(toLowerCase(extractedContent.links[j].text))
  \/ HoldsWord(toLowerCase(extractedContent.links[j].url))

\* fallbackTextAnalysis was applied with the default threshold and exactly
\* one link, link i, shows the query in its text
OnlyTextMatch(i) ==
  /\ pc = "returned"
  /\ fallbackCalls = <<DefaultThreshold>>
  /\ i \in 1..Len(extractedContent.links)
  /\ TextHolds(i)
  /\ \A j \in 1..Len(extractedContent.links) : TextHolds(j) => j = i

\* as OnlyTextMatch, with the query and the texts compared in lower case
OnlyLowerTextMatch(i) ==
  /\ pc = "returned"
  /\ fallbackCalls = <<DefaultThreshold>>
  /\ i \in 1..Len(extractedContent.links)
  /\ \A j \in 1..Len(extractedContent.links) :
       includes(toLowerCase(extractedContent.links[j].text), toLowerCase(userQuery))
         <=> j = i

\* C11 as stated: when the query occurs in the text of exactly one link, the
\* fallback at the default threshold returns exactly that link, with a
\* positive score.
RoundTripExactlyOne ==
  \A i \in 1..Len(extractedContent.links) :
    OnlyTextMatch(i) =>
      /\ Len(result.relevantLinks) = 1
      /\ result.relevantLinks[1].url = extractedContent.links[i].url
      /\ result.relevantLinks[1].relevanceScore > 0

\* C11, amended: when the query occurs, ignoring case, in the text of exactly
\* one link, the
\* fallback at the default threshold returns that link with a score of at
\* least 0.3; every other link it returns matches the query loosely, and
\* when no other link does, the result is that one link.
RoundTripAtLeastOne ==
  \A i \in 1..Len(extractedContent.links) :
    OnlyLowerTextMatch(i) =>
      /\ Kept(i)
      /\ fallbackScore(extractedContent.links[i], userQuery) >= TextPhraseBonus
      /\ \A j \in 1..Len(extractedContent.links) : (j # i /\ Kept(j)) => MatchesLoosely(j)
      /\ (\A j \in 1..Len(extractedContent.links) : j # i => ~MatchesLoosely(j))
           => Len(result.relevantLinks) = 1

\* C11: the query "Docs" occurs in the text of one of two links and the
\* fallback returned that link alone
W_RoundTripAtLeastOne ==
  /\ userQuery = <<"D","o","c","s">>
  /\ Len(extractedContent.links) = 2
  /\ \E i \in 1..2 : OnlyLowerTextMatch(i) /\ Kept(i)
  /\ Len(result.relevantLinks) = 1


\* the model answered {links:[{index:1,relevanceScore:0.9,reasoning:"match"},]}
\* to a non-empty query on a bounded list that holds a link
RepairableAnswered ==
  /\ pc = "returned"
  /\ ai = AiString(RepairableText)
  /\ NonEmptyQuery
  /\ SomeLinkConsidered

\* C12: the response {links:[{index:1,relevanceScore:0.9,reasoning:"match"},]}
\* fails the first JSON.parse, parses after the repair, and the primary
\* strategy returns the first bounded link with relevanceScore 0.9 and
\* reasoning "match"; fallbackTextAnalysis is not called.
RepairedAndAdmitted ==
  RepairableAnswered =>
    /\ ~JSONparse(RepairableText).ok
    /\ parseCalls = 2
    /\ fallbackCalls = << >>
    /\ result.relevantLinks =
         << [url |-> extractedContent.links[1].url,
             text |-> extractedContent.links[1].text,
             type |-> extractedContent.links[1].type,
             relevanceScore |-> 90,
             reasoning |-> "match"] >>
    /\ result.queryInterpretation.prefix = "Query analysis not provided"

\* C12: the repairable response was answered to a query of one word on two
\* links
W_RepairedAndAdmitted ==
  /\ RepairableAnswered
  /\ WordCount = 1
  /\ maxLinks = 2
  /\ Len(extractedContent.links) = 2
  /\ Len(result.relevantLinks) = 1


(***************************************************************************)
(* URLs.  new URL(s) is modelled for the strings the extractors parse:     *)
(* they begin with http:// or https://, and their authority holds a host   *)
(* and an optional port (no credentials, no IPv6 literal, no percent       *)
(* escapes).  A URL is the record [ok, protocol, host, hostname, pathname, *)
(* href]; ok = FALSE is the TypeError new URL throws.                      *)
(***************************************************************************)
\* String.prototype.startsWith, String.prototype.endsWith
startsWith(s, p) == Len(s) >= Len(p) /\ SubSeq(s, 1, Len(p)) = p
endsWith(s, p) == Len(s) >= Len(p) /\ SubSeq(s, Len(s) - Len(p) + 1, Len(s)) = p

\* the first position >= i of s that holds a character of cs (Len(s)+1 if none)
RECURSIVE firstOf(_, _, _)
firstOf(s, cs, i) == IF i > Len(s) \/ s[i] \in cs THEN i ELSE firstOf(s, cs, i + 1)

\* the first position >= i of s that holds no slash
RECURSIVE skipSlashes(_, _)
skipSlashes(s, i) == IF i > Len(s) \/ s[i] \notin {"/", "\\"} THEN i ELSE skipSlashes(s, i + 1)

\* String.prototype.split(sep) for a separator of one character
RECURSIVE splitOn(_, _, _, _, _)
splitOn(s, sep, i, cur, acc) ==
  IF i > Len(s) THEN Append(acc, cur)
  ELSE IF s[i] = sep THEN splitOn(s, sep, i + 1, << >>, Append(acc, cur))
  ELSE splitOn(s, sep, i + 1, Append(cur, s[i]), acc)

dropLast(s) == IF s = << >> THEN << >> ELSE SubSeq(s, 1, Len(s) - 1)

\* the path segments with "." and ".." applied; a dot segment at the end
\* leaves an empty last segment
RECURSIVE removeDotSegments(_, _)
removeDotSegments(segments, out) ==
  IF segments = << >> THEN out
  ELSE IF Head(segments) = <<".",".">>
  THEN removeDotSegments(Tail(segments),
         IF Len(segments) = 1 THEN Append(dropLast(out), << >>) ELSE dropLast(out))
  ELSE IF Head(segments) = <<".">>
  THEN removeDotSegments(Tail(segments), IF Len(segments) = 1 THEN Append(out, << >>) ELSE out)
  ELSE removeDotSegments(Tail(segments), Append(out, Head(segments)))

RECURSIVE joinPath(_)
joinPath(segments) ==
  IF segments = << >> THEN << >> ELSE <<"/">> \o Head(segments) \o joinPath(Tail(segments))

\* url.pathname of the path as written: "/" when it is empty
pathnameOf(path) ==
  IF path = << >> THEN <<"/">>
  ELSE joinPath(removeDotSegments(Tail(splitOn(path, "/", 1, << >>, << >>)), << >>))

Digits == <<"0","1","2","3","4","5","6","7","8","9">>
IsDigit(c) == \E d \in 1..10 : Digits[d] = c

\* the number a string of digits writes
RECURSIVE digitsValue(_, _)
digitsValue(s, acc) ==
  IF s = << >> THEN acc
  ELSE digitsValue(Tail(s), 10 * acc + (CHOOSE d \in 1..10 : Digits[d] = Head(s)) - 1)

\* the largest port
MaxPort == 65535

validPort(port) ==
  /\ \A i \in 1..Len(port) : IsDigit(port[i])
  /\ Len(port) <= 5
  /\ digitsValue(port, 0) <= MaxPort

\* characters a host may not hold
ForbiddenHostChars == {" ", "<", ">", "@", "[", "]", "^", "|", "%"}

validHost(host) == host # << >> /\ \A i \in 1..Len(host) : host[i] \notin ForbiddenHostChars

\* the port a scheme implies is left out of url.host
defaultPort(protocol) == IF protocol = <<"h","t","t","p","s",":">> THEN <<"4","4","3">> ELSE <<"8","0">>

hostWithPort(protocol, hostname, port) ==
  IF port = << >> \/ port = defaultPort(protocol) THEN hostname ELSE hostname \o <<":">> \o port

BadUrl ==
  [ok |-> FALSE, protocol |-> << >>, host |-> << >>, hostname |-> << >>,
   pathname |-> << >>, href |-> << >>]

\* the URL of its parts: the host and the port as written, the path up to
\* the query, and the query and fragment
urlOfParts(protocol, host, port, path, rest) ==
  IF ~validHost(host) \/ ~validPort(port) THEN BadUrl
  ELSE [ok |-> TRUE,
        protocol |-> protocol,
        host |-> hostWithPort(protocol, toLowerCase(host), port),
        hostname |-> toLowerCase(host),
        pathname |-> pathnameOf(path),
        href |-> protocol \o <<"/","/">> \o hostWithPort(protocol, toLowerCase(host), port)
                 \o pathnameOf(path) \o rest]

\* the authority splits at its colon into host and port
urlOfAuthority(protocol, authority, colon, path, rest) ==
  urlOfParts(protocol, SubSeq(authority, 1, colon - 1),
             SubSeq(authority, colon + 1, Len(authority)), path, rest)

\* the text splits into the authority [start, pathStart), the path
\* [pathStart, restStart) and the query and fragment
urlOfSpans(s, protocol, start, pathStart, restStart) ==
  urlOfAuthority(protocol, SubSeq(s, start, pathStart - 1),
                 firstOf(SubSeq(s, start, pathStart - 1), {":"}, 1),
                 SubSeq(s, pathStart, restStart - 1), SubSeq(s, restStart, Len(s)))

urlFrom(s, protocol, start) ==
  urlOfSpans(s, protocol, start, firstOf(s, {"/", "\\", "?", "#"}, start),
             firstOf(s, {"?", "#"}, start))

\* new URL(s)
URL(s) ==
  IF startsWith(s, <<"h","t","t","p","s",":","/","/">>) THEN urlFrom(s, <<"h","t","t","p","s",":">>, skipSlashes(s, 7))
  ELSE IF startsWith(s, <<"h","t","t","p",":","/","/">>) THEN urlFrom(s, <<"h","t","t","p",":">>, skipSlashes(s, 6))
  ELSE IF startsWith(s, <<"f","t","p",":","/","/">>) THEN urlFrom(s, <<"f","t","p",":">>, skipSlashes(s, 5))
  ELSE BadUrl


(***************************************************************************)
(* The extractors: extractPageContent (content-extractor.ts) on markup and *)
(* extractPageContentFromMarkdown (browser-utils.ts) on a flat url list.   *)
(* resolveUrl and isNonContentLink stand in both files with the same text. *)
(***************************************************************************)
\* baseUrlObj.pathname.replace(/\/[^\/]*$/, '/'): the pathname up to its last slash
upToLastSlash(pathname) ==
  SubSeq(pathname, 1, Maximum({i \in 1..Len(pathname) : pathname[i] = "/"}))

\* basePath
basePath(pathname) == IF endsWith(pathname, <<"/">>) THEN pathname ELSE upToLastSlash(pathname)

\* resolveUrl behind the test for an absolute href, with new URL(baseUrl)
resolveAgainst(href, baseUrlObj) ==
  IF startsWith(href, <<"/","/">>) THEN baseUrlObj.protocol \o href
  ELSE IF startsWith(href, <<"/">>)
  THEN baseUrlObj.protocol \o <<"/","/">> \o baseUrlObj.host \o href
  ELSE baseUrlObj.protocol \o <<"/","/">> \o baseUrlObj.host \o basePath(baseUrlObj.pathname) \o href

\* resolveUrl(href, baseUrl)
resolveUrl(href, baseUrl) ==
  IF startsWith(href, <<"h","t","t","p",":","/","/">>) \/ startsWith(href, <<"h","t","t","p","s",":","/","/">>) THEN href
  ELSE resolveAgainst(href, URL(baseUrl))

nonContentExtensions ==
  { <<".","c","s","s">>, <<".","j","s">>, <<".","j","s","o","n">>, <<".","x","m","l">>, <<".","r","s","s">>, <<".","a","t","o","m">>,
    <<".","j","p","g">>, <<".","j","p","e","g">>, <<".","p","n","g">>, <<".","g","i","f">>, <<".","w","e","b","p">>, <<".","s","v","g">>, <<".","i","c","o">>,
    <<".","p","d","f">>, <<".","z","i","p">>, <<".","t","a","r">>, <<".","g","z">>, <<".","r","a","r">>, <<".","7","z">>,
    <<".","m","p","3">>, <<".","m","p","4">>, <<".","a","v","i">>, <<".","m","o","v">>, <<".","w","m","v">>, <<".","f","l","v">>,
    <<".","d","o","c">>, <<".","d","o","c","x">>, <<".","x","l","s">>, <<".","x","l","s","x">>, <<".","p","p","t">>, <<".","p","p","t","x">> }

nonContentPatterns ==
  { <<"m","a","i","l","t","o",":">>, <<"t","e","l",":">>, <<"f","t","p",":">>, <<"f","i","l","e",":">>,
    <<"j","a","v","a","s","c","r","i","p","t",":">>, <<"d","a","t","a",":">>,
    <<"#">>,
    <<"/","f","e","e","d">>, <<"/","r","s","s">>, <<"/","s","i","t","e","m","a","p">>,
    <<"/","w","p","-","c","o","n","t","e","n","t","/">>, <<"/","w","p","-","i","n","c","l","u","d","e","s","/">>,
    <<"/","a","s","s","e","t","s","/">>, <<"/","s","t","a","t","i","c","/">>, <<"/","m","e","d","i","a","/">>,
    <<"?","f","o","r","m","a","t","=">>, <<"&","f","o","r","m","a","t","=">>,
    <<"/","p","r","i","n","t","/">>, <<"/","d","o","w","n","l","o","a","d","/">> }

\* the two loops of isNonContentLink on url = href.toLowerCase()
rejectsLowerCase(url) ==
  \/ \E ext \in nonContentExtensions : endsWith(url, ext)
  \/ \E pattern \in nonContentPatterns : includes(url, pattern)

\* isNonContentLink(href)
isNonContentLink(href) == rejectsLowerCase(toLowerCase(href))

ExtractedLink(url, text, type) == [url |-> url, text |-> text, type |-> type]

\* a variant of the push without the test for a known url
pushAlways(links, absoluteUrl, absoluteUrlObj, linkText, baseUrlObj) ==
  Append(links,
    ExtractedLink(absoluteUrl, linkText,
      IF absoluteUrlObj.hostname = baseUrlObj.hostname THEN "internal" ELSE "external"))

\* a variant of the push that takes the hosts below the base host for internal
pushFoldingSubdomains(links, absoluteUrl, absoluteUrlObj, linkText, baseUrlObj) ==
  IF \E i \in 1..Len(links) : links[i].url = absoluteUrl THEN links
  ELSE Append(links,
         ExtractedLink(absoluteUrl, linkText,
           IF endsWith(absoluteUrlObj.hostname, baseUrlObj.hostname)
           THEN "internal" ELSE "external"))

\* the link of a resolved url that parsed, pushed unless its url is in links
pushUnlessKnown(links, absoluteUrl, absoluteUrlObj, linkText, baseUrlObj) ==
  IF \E i \in 1..Len(links) : links[i].url = absoluteUrl THEN links
  ELSE Append(links,
         ExtractedLink(absoluteUrl, linkText,
           IF absoluteUrlObj.hostname = baseUrlObj.hostname THEN "internal" ELSE "external"))

\* a variant of the try block in which new URL(absoluteUrl) never throws
pushUnparsed(links, absoluteUrl, absoluteUrlObj, linkText, baseUrlObj) ==
  IF \E i \in 1..Len(links) : links[i].url = absoluteUrl THEN links
  ELSE Append(links,
         ExtractedLink(absoluteUrl, linkText,
           IF absoluteUrlObj.hostname = baseUrlObj.hostname THEN "internal" ELSE "external"))

\* a variant of the try block without the catch: the exception of
\* new URL(absoluteUrl) ends the extraction and no link is returned
throwOnMalformed(links, absoluteUrl, absoluteUrlObj, linkText, baseUrlObj) ==
  IF ~absoluteUrlObj.ok THEN << >>
  ELSE pushUnlessKnown(links, absoluteUrl, absoluteUrlObj, linkText, baseUrlObj)

\* the try block of extractLinks; new URL(absoluteUrl) throws into the catch
\* block, which skips the href
tryPush(links, absoluteUrl, absoluteUrlObj, linkText, baseUrlObj) ==
  IF ~absoluteUrlObj.ok THEN links
  ELSE pushUnlessKnown(links, absoluteUrl, absoluteUrlObj, linkText, baseUrlObj)

\* a variant of the round that does not ask isNonContentLink
afterAnchorUnfiltered(links, anchor, baseUrl) ==
  IF anchor.href = << >> \/ anchor.text = << >> THEN links
  ELSE tryPush(links, resolveUrl(anchor.href, baseUrl),
               URL(resolveUrl(anchor.href, baseUrl)), anchor.text, URL(baseUrl))

\* one round of the loop of extractLinks, for the <a> element anchor
afterAnchor(links, anchor, baseUrl) ==
  IF anchor.href = << >> \/ isNonContentLink(anchor.href) \/ anchor.text = << >> THEN links
  ELSE tryPush(links, resolveUrl(anchor.href, baseUrl),
               URL(resolveUrl(anchor.href, baseUrl)), anchor.text, URL(baseUrl))

RECURSIVE extractLinksFrom(_, _, _)
extractLinksFrom(anchors, baseUrl, links) ==
  IF anchors = << >> THEN links
  ELSE extractLinksFrom(Tail(anchors), baseUrl, afterAnchor(links, Head(anchors), baseUrl))

\* extractLinks(html, baseUrl), on the <a> elements its pattern matches
extractLinks(anchors, baseUrl) == extractLinksFrom(anchors, baseUrl, << >>)

LowerWordChars == {LowerChars[i] : i \in 1..Len(LowerChars)}
\* \w
IsWordChar(c) == c \in LowerWordChars \/ toLowerChar(c) # c \/ IsDigit(c) \/ c = "_"

toUpperChar(c) ==
  IF c \in LowerWordChars
  THEN UpperChars[CHOOSE i \in 1..Len(LowerChars) : LowerChars[i] = c]
  ELSE c

\* .replace(/\.[^.]*$/, ''): the text before its last dot
withoutExtension(s) ==
  IF \E i \in 1..Len(s) : s[i] = "."
  THEN SubSeq(s, 1, Maximum({i \in 1..Len(s) : s[i] = "."}) - 1)
  ELSE s

\* .replace(/[-_]/g, ' ')
dashesToSpaces(s) == [i \in 1..Len(s) |-> IF s[i] \in {"-", "_"} THEN " " ELSE s[i]]

\* .replace(/\b\w/g, l => l.toUpperCase())
titleCase(s) ==
  [i \in 1..Len(s) |->
     IF IsWordChar(s[i]) /\ (i = 1 \/ ~IsWordChar(s[i - 1])) THEN toUpperChar(s[i]) ELSE s[i]]

\* pathname.split('/').filter(Boolean)
RECURSIVE nonEmptyParts(_)
nonEmptyParts(parts) ==
  IF parts = << >> THEN << >>
  ELSE IF Head(parts) = << >> THEN nonEmptyParts(Tail(parts))
  ELSE <<Head(parts)>> \o nonEmptyParts(Tail(parts))

\* urlObj.hostname.replace(/^www\./, '')
withoutWww(hostname) ==
  IF startsWith(hostname, <<"w","w","w",".">>) THEN SubSeq(hostname, 5, Len(hostname)) ELSE hostname

\* the text of the parts of the pathname, or of the hostname when there are none
textOfParts(pathParts, hostname) ==
  IF Len(pathParts) > 0
  THEN titleCase(dashesToSpaces(withoutExtension(pathParts[Len(pathParts)])))
  ELSE withoutWww(hostname)

\* generateLinkText(url), for a url that parses
generateLinkText(urlObj) ==
  textOfParts(nonEmptyParts(splitOn(urlObj.pathname, "/", 1, << >>, << >>)), urlObj.hostname)

\* one round of the loop of processExtractedLinks
afterListedUrl(links, url, baseUrl) ==
  IF isNonContentLink(url) THEN links
  ELSE tryPush(links, resolveUrl(url, baseUrl), URL(resolveUrl(url, baseUrl)),
               generateLinkText(URL(resolveUrl(url, baseUrl))), URL(baseUrl))

RECURSIVE processFrom(_, _, _)
processFrom(urls, baseUrl, links) ==
  IF urls = << >> THEN links
  ELSE processFrom(Tail(urls), baseUrl, afterListedUrl(links, Head(urls), baseUrl))

\* processExtractedLinks(extractedLinks, baseUrl)
processExtractedLinks(extractedLinks, baseUrl) == processFrom(extractedLinks, baseUrl, << >>)


(***************************************************************************)
(* The page text.  The source is a sequence of segments [k, n]: n          *)
(* characters of kind k.  In markup: "text" (no whitespace, "<" or "&"),   *)
(* "space" (whitespace), "tag" (one tag), "script" (one script, style or   *)
(* noscript element), "entity" (one of &amp; &lt; &gt; &quot; &#39;) and   *)
(* "nbsp" (&nbsp;).  In markdown: "text", "space", "code" (one fenced      *)
(* block or inline code span) and "link" (a link whose text has n          *)
(* characters).                                                            *)
(***************************************************************************)
TextCap == 3000
Marker == <<".", ".", ".">>

Segment(k, n) == [k |-> k, n |-> n]

\* what a segment that is kept leaves in the text
charsOf(segment) ==
  IF segment.k = "entity" THEN <<"&">> ELSE [i \in 1..segment.n |-> "x"]

\* the replacements and .replace(/\s+/g, ' ').trim(): segments of the
\* removed kinds leave nothing, a run of segments of the blank kinds leaves
\* one space between two kept segments and nothing at either end
RECURSIVE normalizedFrom(_, _, _, _, _)
normalizedFrom(segments, blank, removed, out, pending) ==
  IF segments = << >> THEN out
  ELSE IF Head(segments).k \in removed
  THEN normalizedFrom(Tail(segments), blank, removed, out, pending)
  ELSE IF Head(segments).k \in blank
  THEN normalizedFrom(Tail(segments), blank, removed, out, TRUE)
  ELSE normalizedFrom(Tail(segments), blank, removed,
         out \o (IF pending /\ out # << >> THEN <<" ">> ELSE << >>) \o charsOf(Head(segments)),
         FALSE)

\* a variant of the limit that keeps the whole text
uncapped(text) == text

\* text.length > 3000 ? text.substring(0, 3000) + '...' : text
capText(text) == IF Len(text) > TextCap THEN SubSeq(text, 1, TextCap) \o Marker ELSE text

\* extractText(html)
extractText(html) ==
  capText(normalizedFrom(html, {"space", "tag", "nbsp"}, {"script"}, << >>, FALSE))

\* extractTextFromMarkdown(markdown)
extractTextFromMarkdown(markdown) ==
  capText(normalizedFrom(markdown, {"space"}, {"code"}, << >>, FALSE))

\* extractTitle(html) and extractTitleFromMarkdown(markdown): the trimmed
\* match, or undefined (written << >>, as falsy as the empty title)
extractTitle(titleMatch) == IF titleMatch.found THEN trim(titleMatch.text) ELSE << >>

ExtractedContent(links, pageText, title) ==
  [links |-> links, pageText |-> pageText, title |-> title]

(***************************************************************************)
(* The pages the extractors are run on.                                    *)
(***************************************************************************)
MaxAnchors == 3

BlogPostUrl == <<"h","t","t","p","s",":","/","/","e","x","a","m","p","l","e",".","c","o","m","/","b","l","o","g","/","p","o","s","t">>
WwwStaticUrl == <<"h","t","t","p","s",":","/","/","w","w","w",".","e","x","a","m","p","l","e",".","c","o","m","/","s","t","a","t","i","c","/">>
BaseUrls == {BlogPostUrl, WwwStaticUrl}

Anchor(href, text) == [href |-> href, text |-> text]

AnchorPool ==
  { Anchor(<<".",".","/","d","o","c","s","/","p","a","g","e",".","h","t","m","l">>, <<"D","o","c","s">>),
    Anchor(<<"/","i","m","a","g","e",".","p","n","g">>, <<"I","m","a","g","e">>),
    Anchor(<<"h","t","t","p","s",":","/","/","e","x","a","m","p","l","e",".","c","o","m","/","a","b","o","u","t">>, <<"A","b","o","u","t">>),
    Anchor(<<"/","a","b","o","u","t">>, <<"A","b","o","u","t"," ","u","s">>),
    Anchor(<<"/","a","b","o","u","t">>, << >>),
    Anchor(<<"h","t","t","p","s",":","/","/","b","l","o","g",".","e","x","a","m","p","l","e",".","c","o","m","/","x">>, <<"B","l","o","g">>),
    Anchor(<<"/","/","b","a","d"," ","h","o","s","t","/","x">>, <<"B","a","d">>) }

HrefPool == {a.href : a \in AnchorPool}

SeqsUpTo(S, n) == UNION {[1..k -> S] : k \in 0..n}

HomeTitle == [found |-> TRUE, text |-> <<" ","H","o","m","e"," ">>]
ShortSource == <<Segment("text", 4)>>

MarkupSources ==
  { << >>,
    <<Segment("space", 2), Segment("text", 5), Segment("tag", 3), Segment("text", 2),
      Segment("space", 1)>>,
    <<Segment("text", TextCap)>>,
    <<Segment("text", TextCap + 1)>>,
    <<Segment("text", TextCap - 1), Segment("tag", 4), Segment("text", 1)>>,
    <<Segment("text", TextCap \div 2), Segment("script", TextCap + 1),
      Segment("text", TextCap \div 2)>>,
    <<Segment("text", TextCap - 2), Segment("entity", 5), Segment("nbsp", 6),
      Segment("text", TextCap)>> }

MarkdownSources ==
  { <<Segment("code", TextCap + 1)>>,
    <<Segment("space", 1), Segment("link", 5), Segment("space", 3), Segment("text", 2)>>,
    <<Segment("text", TextCap)>>,
    <<Segment("text", TextCap + 1)>>,
    <<Segment("text", TextCap - 1), Segment("code", 50), Segment("text", 2)>> }

Pages ==
  {Page("markup", b, anchors, << >>, ShortSource, HomeTitle) :
     b \in BaseUrls, anchors \in SeqsUpTo(AnchorPool, MaxAnchors)}
  \cup {Page("list", b, << >>, urls, ShortSource, HomeTitle) :
          b \in BaseUrls, urls \in SeqsUpTo(HrefPool, MaxAnchors)}
  \cup {Page("markup", BlogPostUrl, << >>, << >>, source, NoTitle) : source \in MarkupSources}
  \cup {Page("list", BlogPostUrl, << >>, << >>, source, NoTitle) : source \in MarkdownSources}

NoContent == ExtractedContent(<< >>, << >>, << >>)

ExtractInit ==
  /\ page \in Pages
  /\ extractedContent = NoContent
  /\ pc = "idle"
  /\ ai = AiThrows
  /\ userQuery = << >>
  /\ maxLinks = DefaultMaxLinks
  /\ result = NoResult
  /\ modelCalls = << >>
  /\ fallbackCalls = << >>
  /\ parseCalls = 0
  /\ repeated = FALSE
  /\ firstResult = NoResult
  /\ crawl = NoCrawl

\* extractPageContent(html, baseUrl)
extractPageContent ==
  /\ pc = "idle"
  /\ page.kind = "markup"
  /\ extractedContent' = ExtractedContent(extractLinks(page.anchors, page.baseUrl),
                                          extractText(page.source),
                                          extractTitle(page.title))
  /\ pc' = "extracted"
  /\ UNCHANGED <<crawl, ai, userQuery, maxLinks, result, modelCalls, fallbackCalls, parseCalls,
                 repeated, firstResult, page>>

\* extractPageContentFromMarkdown(markdown, baseUrl, extractedLinks)
extractPageContentFromMarkdown ==
  /\ pc = "idle"
  /\ page.kind = "list"
  /\ extractedContent' = ExtractedContent(processExtractedLinks(page.urls, page.baseUrl),
                                          extractTextFromMarkdown(page.source),
                                          extractTitle(page.title))
  /\ pc' = "extracted"
  /\ UNCHANGED <<crawl, ai, userQuery, maxLinks, result, modelCalls, fallbackCalls, parseCalls,
                 repeated, firstResult, page>>

ExtractNext == extractPageContent \/ extractPageContentFromMarkdown

ExtractSpec == ExtractInit /\ [][ExtractNext]_vars


(***************************************************************************)
(* Properties of the extractors (ExtractSpec).                             *)
(***************************************************************************)
Extracted == pc = "extracted"

\* the hrefs the extractor was given, in the order of the source
HrefCount == IF page.kind = "markup" THEN Len(page.anchors) ELSE Len(page.urls)
HrefAt(i) == IF page.kind = "markup" THEN page.anchors[i].href ELSE page.urls[i]
ResolvedAt(i) == resolveUrl(HrefAt(i), page.baseUrl)

\* the i-th href is one a link is made of: it is not filtered out (nor, in
\* markup, without text) and its resolved form parses
Yields(i) ==
  /\ ~isNonContentLink(HrefAt(i))
  /\ page.kind = "markup" => (page.anchors[i].href # << >> /\ page.anchors[i].text # << >>)
  /\ URL(ResolvedAt(i)).ok

\* the position of the first href a link of url u is made of
FirstYielding(u) == Minimum({i \in 1..HrefCount : ResolvedAt(i) = u /\ Yields(i)})

TypeOf(u) ==
  IF URL(u).hostname = URL(page.baseUrl).hostname THEN "internal" ELSE "external"

TextOfFirst(u) ==
  IF page.kind = "markup" THEN page.anchors[FirstYielding(u)].text
  ELSE generateLinkText(URL(u))

\* C13: in the list of either extractor no two links share a url, there is
\* one link for every resolved url some href yields, the links stand in the
\* order of the first href that resolved to each, and each link carries the
\* text and type of that first href, whatever later hrefs resolve to the
\* same url (the resolved url being the string resolveUrl returns).
FirstOccurrenceWins ==
  Extracted =>
    /\ \A j, k \in 1..Len(extractedContent.links) :
         j # k => extractedContent.links[j].url # extractedContent.links[k].url
    /\ \A i \in 1..HrefCount :
         Yields(i) => \E k \in 1..Len(extractedContent.links) :
                        extractedContent.links[k].url = ResolvedAt(i)
    /\ \A k \in 1..Len(extractedContent.links) :
         /\ \E i \in 1..HrefCount : ResolvedAt(i) = extractedContent.links[k].url /\ Yields(i)
         /\ extractedContent.links[k].text = TextOfFirst(extractedContent.links[k].url)
         /\ extractedContent.links[k].type = TypeOf(extractedContent.links[k].url)
    /\ \A k \in 1..(Len(extractedContent.links) - 1) :
         FirstYielding(extractedContent.links[k].url)
           < FirstYielding(extractedContent.links[k + 1].url)

\* three <a> elements, the third resolving to the url of the first under
\* another text: two links, the first with the text of the first element
W_FirstOccurrenceWins ==
  /\ Extracted
  /\ page.kind = "markup"
  /\ Len(page.anchors) = 3
  /\ Yields(1) /\ Yields(2) /\ Yields(3)
  /\ ResolvedAt(3) = ResolvedAt(1)
  /\ ResolvedAt(2) # ResolvedAt(1)
  /\ page.anchors[3].text # page.anchors[1].text
  /\ Len(extractedContent.links) = 2
  /\ extractedContent.links[1].text = page.anchors[1].text


\* a link url is absolute: it starts with its scheme
IsAbsolute(u) == startsWith(u, <<"h","t","t","p",":","/","/">>) \/ startsWith(u, <<"h","t","t","p","s",":","/","/">>)

\* C14: every url in the list of either extractor is an absolute url that
\* new URL parses, and an href whose resolved form does not parse has no link.
ListedUrlsParse ==
  Extracted =>
    /\ \A k \in 1..Len(extractedContent.links) :
         IsAbsolute(extractedContent.links[k].url) /\ URL(extractedContent.links[k].url).ok
    /\ \A i \in 1..HrefCount :
         ~URL(ResolvedAt(i)).ok =>
           \A k \in 1..Len(extractedContent.links) :
             extractedContent.links[k].url # ResolvedAt(i)

\* an href that passes the filter and resolves to a string that does not
\* parse, beside one that yields a link
W_ListedUrlsParse ==
  /\ Extracted
  /\ \E i \in 1..HrefCount : ~isNonContentLink(HrefAt(i)) /\ ~URL(ResolvedAt(i)).ok
  /\ Len(extractedContent.links) > 0

\* host a lies below host b
IsSubdomainOf(a, b) == Len(a) > Len(b) /\ endsWith(a, <<".">> \o b)

\* C15: a link is internal exactly when the hostname of its url, as new URL
\* gives it, is the hostname of the base url, and external otherwise; a host
\* below or above the base host is external.
InternalIffSameHostname ==
  Extracted =>
    \A k \in 1..Len(extractedContent.links) :
      /\ extractedContent.links[k].type \in {"internal", "external"}
      /\ extractedContent.links[k].type = "internal"
           <=> URL(extractedContent.links[k].url).hostname = URL(page.baseUrl).hostname
      /\ (\/ IsSubdomainOf(URL(extractedContent.links[k].url).hostname,
                           URL(page.baseUrl).hostname)
          \/ IsSubdomainOf(URL(page.baseUrl).hostname,
                           URL(extractedContent.links[k].url).hostname))
           => extractedContent.links[k].type = "external"

\* an internal link beside an external link to a host below the base host
W_InternalIffSameHostname ==
  /\ Extracted
  /\ \E k \in 1..Len(extractedContent.links) : extractedContent.links[k].type = "internal"
  /\ \E k \in 1..Len(extractedContent.links) :
       /\ IsSubdomainOf(URL(extractedContent.links[k].url).hostname,
                        URL(page.baseUrl).hostname)
       /\ extractedContent.links[k].type = "external"

DotDotHref == <<".",".","/","d","o","c","s","/","p","a","g","e",".","h","t","m","l">>
DocsPageUrl == <<"h","t","t","p","s",":","/","/","e","x","a","m","p","l","e",".","c","o","m","/","d","o","c","s","/","p","a","g","e",".","h","t","m","l">>

\* C16: the href "../docs/page.html" on the page
\* "https://example.com/blog/post" gives a link with the url
\* "https://example.com/docs/page.html", and no url in the list keeps a
\* parent-directory segment.
ParentSegmentsApplied ==
  Extracted =>
    /\ (page.baseUrl = BlogPostUrl /\ \E i \in 1..HrefCount : HrefAt(i) = DotDotHref /\ Yields(i))
         => \E k \in 1..Len(extractedContent.links) :
              extractedContent.links[k].url = DocsPageUrl
    /\ \A k \in 1..Len(extractedContent.links) :
         ~includes(extractedContent.links[k].url, <<"/",".",".","/">>)

\* C17: every link in the list of either extractor is made of an href that
\* isNonContentLink accepts as written, there are no more links than such
\* hrefs, and an accepted href keeps its link when the filter would reject
\* its resolved form: the filter sees the href before resolution.
RejectedNeverListed ==
  Extracted =>
    /\ \A k \in 1..Len(extractedContent.links) :
         \E i \in 1..HrefCount :
           /\ ~isNonContentLink(HrefAt(i))
           /\ ResolvedAt(i) = extractedContent.links[k].url
           /\ extractedContent.links[k].text = TextOfFirst(extractedContent.links[k].url)
    /\ Len(extractedContent.links)
         <= Cardinality({i \in 1..HrefCount : ~isNonContentLink(HrefAt(i))})
    /\ \A i \in 1..HrefCount :
         Yields(i) => \E k \in 1..Len(extractedContent.links) :
                        extractedContent.links[k].url = ResolvedAt(i)

\* "/image.png" among the hrefs of a page under /static/, beside a relative
\* href: one link, whose resolved url the filter would reject
W_RejectedNeverListed ==
  /\ Extracted
  /\ \E i \in 1..HrefCount : HrefAt(i) = <<"/","i","m","a","g","e",".","p","n","g">>
  /\ Len(extractedContent.links) = 1
  /\ isNonContentLink(extractedContent.links[1].url)

\* the text of the page before the limit
NormalizedText ==
  IF page.kind = "markup"
  THEN normalizedFrom(page.source, {"space", "tag", "nbsp"}, {"script"}, << >>, FALSE)
  ELSE normalizedFrom(page.source, {"space"}, {"code"}, << >>, FALSE)

\* C18 as stated: the pageText of either extractor has at most 3000
\* characters.
PageTextWithinCap == Extracted => Len(extractedContent.pageText) <= TextCap

\* C18: the pageText of either extractor has at most 3000 characters and the
\* three of the marker: a text of more than 3000 characters is cut to its
\* first 3000 with the marker "..." appended, any other text is kept whole.
PageTextCutWithMarker ==
  Extracted =>
    /\ Len(extractedContent.pageText) <= TextCap + Len(Marker)
    /\ Len(NormalizedText) <= TextCap => extractedContent.pageText = NormalizedText
    /\ Len(NormalizedText) > TextCap =>
         /\ Len(extractedContent.pageText) = TextCap + Len(Marker)
         /\ SubSeq(extractedContent.pageText, 1, TextCap) = SubSeq(NormalizedText, 1, TextCap)
         /\ SubSeq(extractedContent.pageText, TextCap + 1, TextCap + Len(Marker)) = Marker

\* a markup page whose text is one character too long
W_PageTextCutWithMarker ==
  /\ Extracted
  /\ page.kind = "markup"
  /\ Len(NormalizedText) = TextCap + 1
  /\ Len(extractedContent.pageText) = TextCap + Len(Marker)


(***************************************************************************)
(* Properties of the primary strategy (Spec).                              *)
(***************************************************************************)
\* the model answered and parseAIResponse returned
PrimaryAnswered ==
  /\ pc = "returned"
  /\ Len(modelCalls) = 1
  /\ ai.kind \in {"string", "value"}
  /\ ~FellBack

\* the relevantLinks of parseAIResponse: those of the result, or none when
\* the short-query augmentation was tried (line 77: it is tried on none)
PrimaryLinks == IF fallbackCalls = << >> THEN result.relevantLinks ELSE << >>

\* the bounded link list
BoundedLinks == slice(extractedContent.links, maxLinks)

\* the entries of the model's response
ModelEntries ==
  arrayOrEmpty(get(parseWithRepair(jsonMatch(aiResponseText(ai).tokens).tokens).value, "links"))

IndexOf(entries, e) == get(entries[e], "index")
ScoreOf(entries, e) == get(entries[e], "relevanceScore")

\* the index of entry e is a number that denotes a position of the bounded list
DenotesPosition(entries, e) ==
  /\ IsNumber(IndexOf(entries, e))
  /\ IndexOf(entries, e).n % One = 0
  /\ (IndexOf(entries, e).n \div One) \in 1..Len(BoundedLinks)

PositionOf(entries, e) == IndexOf(entries, e).n \div One

CarriesLink(analyzed, link) ==
  analyzed.url = link.url /\ analyzed.text = link.text /\ analyzed.type = link.type

EntriesMapOn(entries) ==
  /\ \A j \in 1..Len(PrimaryLinks) :
       \E e \in 1..Len(entries) :
         /\ DenotesPosition(entries, e)
         /\ IsNumber(ScoreOf(entries, e))
         /\ CarriesLink(PrimaryLinks[j], BoundedLinks[PositionOf(entries, e)])
  /\ Len(PrimaryLinks) <= Cardinality({e \in 1..Len(entries) : DenotesPosition(entries, e)})

\* C19: every AnalyzedLink of the primary strategy carries the url, text and
\* type of the bounded link at the 1-based position some entry's index
\* denotes, and the entries whose index denotes no position (zero, negative,
\* too large, not an integer, not a number) produce no AnalyzedLink.
EntriesMapToPositions == PrimaryAnswered => EntriesMapOn(ModelEntries)

\* the score of entry e after the clamp to [0, 1]
ClampedScoreOf(entries, e) ==
  IF ScoreOf(entries, e).n < 0 THEN 0
  ELSE IF ScoreOf(entries, e).n > One THEN One
  ELSE ScoreOf(entries, e).n

\* entry e stands in relevantLinks: the link at its position with its
\* clamped score
Admitted(entries, e) ==
  \E j \in 1..Len(PrimaryLinks) :
    /\ CarriesLink(PrimaryLinks[j], BoundedLinks[PositionOf(entries, e)])
    /\ PrimaryLinks[j].relevanceScore = ClampedScoreOf(entries, e)

AdmittedOn(entries) ==
  /\ \A e \in 1..Len(entries) :
       (DenotesPosition(entries, e) /\ IsNumber(ScoreOf(entries, e))) =>
         (Admitted(entries, e) <=> ClampedScoreOf(entries, e) >= AdmissionFloor)
  /\ \A j \in 1..Len(PrimaryLinks) :
       /\ PrimaryLinks[j].relevanceScore >= AdmissionFloor
       /\ PrimaryLinks[j].relevanceScore <= One

\* C20: in the primary strategy an entry whose index denotes a position of the
\* bounded list and whose score is a number is admitted if and only if its
\* score clamped to [0, 1] is at least 0.2: no admitted score lies below 0.2,
\* a negative score is never admitted, and a score above 1 is admitted as 1.
AdmittedIffAtFloor == PrimaryAnswered => AdmittedOn(ModelEntries)

AboveOneAndBelowFloor(entries) ==
  /\ Len(entries) = 2
  /\ \E e \in 1..2 : /\ DenotesPosition(entries, e)
                     /\ IsNumber(ScoreOf(entries, e))
                     /\ ScoreOf(entries, e).n > One
  /\ \E e \in 1..2 : /\ DenotesPosition(entries, e)
                     /\ IsNumber(ScoreOf(entries, e))
                     /\ ScoreOf(entries, e).n < AdmissionFloor

\* a response of two entries with valid indices, one scored above 1 and one
\* below 0.2: one link, with score 1
W_AdmittedIffAtFloor ==
  /\ PrimaryAnswered
  /\ fallbackCalls = << >>
  /\ AboveOneAndBelowFloor(ModelEntries)
  /\ Len(result.relevantLinks) = 1
  /\ result.relevantLinks[1].relevanceScore = One

\* what parseAIResponse returns for the model's response
ModelAnalysis == parseAIResponse(aiResponseText(ai), BoundedLinks)

\* the fallback strategy at the lowered threshold
LoweredFallback == fallbackTextAnalysis(BoundedLinks, userQuery, ShortQueryThreshold)

Enhanced == result.queryInterpretation.suffix = " (enhanced with text matching)"

AugmentationOn(analysis, lowered) ==
  /\ Len(analysis.relevantLinks) > 0 => fallbackCalls = << >>
  /\ Len(analysis.relevantLinks) = 0 =>
       /\ fallbackCalls = (IF WordCount <= 2 THEN <<ShortQueryThreshold>> ELSE << >>)
       /\ IF WordCount <= 2 /\ Len(lowered.relevantLinks) > 0
          THEN /\ result.relevantLinks = lowered.relevantLinks
               /\ result.totalAnalyzed = lowered.totalAnalyzed
               /\ result.queryInterpretation =
                    Interpretation(analysis.queryInterpretation, << >>,
                                   " (enhanced with text matching)")
          ELSE /\ result.relevantLinks = << >>
               /\ result.totalAnalyzed = Len(BoundedLinks)
               /\ result.queryInterpretation =
                    Interpretation(analysis.queryInterpretation, << >>, "")

\* C21: when the model's response parses and admits no link, the fallback
\* strategy is run at 0.05 if and only if the trimmed query has at most 2
\* words; if that run keeps a link the result holds exactly the fallback's
\* links under the model's interpretation annotated " (enhanced with text
\* matching)", and otherwise the empty primary result is returned with the
\* model's interpretation as it is; when the model admits a link the fallback
\* is not run.
ShortQueryAugmentation == PrimaryAnswered => AugmentationOn(ModelAnalysis, LoweredFallback)

ZeroAdmitted(analysis) == ~analysis.threw /\ Len(analysis.relevantLinks) = 0

\* the model admitted nothing for a query of at most 2 words and the
\* fallback at 0.05 kept a link
W_ShortQueryAugmentation ==
  /\ PrimaryAnswered
  /\ ZeroAdmitted(ModelAnalysis)
  /\ WordCount <= 2
  /\ fallbackCalls = <<ShortQueryThreshold>>
  /\ Enhanced
  /\ Len(result.relevantLinks) > 0

\* the model resolved to a response whose text parseAIResponse was given
ModelResponded ==
  /\ pc = "returned"
  /\ Len(modelCalls) = 1
  /\ ai.kind \in {"string", "value"}
  /\ aiResponseText(ai).defined

\* the text parseAIResponse takes for the JSON object of the response
ModelMatch == jsonMatch(aiResponseText(ai).tokens)

\* the result of the catch block of analyzeLinksWithAI
CatchResult ==
  fallbackTextAnalysis(BoundedLinks, userQuery,
                       IF WordCount <= 2 THEN ShortQueryThreshold ELSE DefaultThreshold)

Degraded ==
  /\ fallbackCalls = <<IF WordCount <= 2 THEN ShortQueryThreshold ELSE DefaultThreshold>>
  /\ result = CatchResult

OneRepairOn(match) ==
  /\ parseCalls <= 2
  /\ ~match.found => parseCalls = 0 /\ Degraded
  /\ match.found =>
       /\ parseCalls = (IF JSONparse(match.tokens).ok THEN 1 ELSE 2)
       /\ (~JSONparse(match.tokens).ok /\ ~JSONparse(fixedJson(match.tokens)).ok) => Degraded

\* C22: JSON.parse is called on the repaired text only after it failed on the
\* raw text, and never a third time; when the repaired text fails too, and
\* when no JSON object is found, analyzeLinksWithAI returns the result of the
\* fallback strategy at 0.05 for a query of at most 2 words and at 0.1
\* otherwise, which is what it returns when the model call throws.
OneRepairThenFallback == ModelResponded => OneRepairOn(ModelMatch)

BeyondRepair(match) ==
  match.found /\ ~JSONparse(match.tokens).ok /\ ~JSONparse(fixedJson(match.tokens)).ok

\* a response whose object does not parse even after the repair
W_OneRepairThenFallback ==
  /\ ModelResponded
  /\ BeyondRepair(ModelMatch)
  /\ parseCalls = 2
  /\ FellBack

FencedOn(t) ==
  codeBlockMatch(t).found =>
    /\ jsonMatch(t) = codeBlockMatch(t)
    /\ JSONparse(codeBlockMatch(t).tokens).ok => (parseCalls = 1 /\ ~FellBack)

\* C23: when the response holds a fenced code block with a JSON object, the
\* text that is parsed is the object inside the block, whatever braces the
\* prose around it holds, and when that object parses the primary strategy
\* answers from it with one call of JSON.parse.
FencedObjectPreferred == ModelResponded => FencedOn(aiResponseText(ai).tokens)

(***************************************************************************)
(* Properties of the fallback scoring rule (FallbackSpec).                 *)
(***************************************************************************)
LowerQuery == toLowerCase(userQuery)

\* where the whitespace-separated words of the lower-cased query start
TokenStarts ==
  {i \in 1..Len(LowerQuery) :
     ~IsSpace(LowerQuery[i]) /\ (i = 1 \/ IsSpace(LowerQuery[i - 1]))}

\* the word that starts at i
QueryTokenAt(i) ==
  SubSeq(LowerQuery, i,
         Minimum({j \in i..Len(LowerQuery) :
                    j = Len(LowerQuery) \/ IsSpace(LowerQuery[j + 1])}))

\* the number of words longer than 2 characters that occur in s, a word said
\* twice counted twice
TokenHits(s) ==
  Cardinality({i \in TokenStarts :
                 Len(QueryTokenAt(i)) > MinWordLength /\ includes(s, QueryTokenAt(i))})

RuleScore(link) ==
  min(ScoreCap,
      TextWordScore * TokenHits(toLowerCase(link.text))
      + UrlWordScore * TokenHits(toLowerCase(link.url))
      + (IF includes(toLowerCase(link.text), LowerQuery) THEN TextPhraseBonus ELSE 0)
      + (IF includes(toLowerCase(link.url), LowerQuery) THEN UrlPhraseBonus ELSE 0))

RuleReasoning(score) ==
  IF score > 0 THEN "Text matching fallback analysis" ELSE "No text match found"

ScoredByRule(analyzed, link) ==
  /\ analyzed.url = link.url
  /\ analyzed.relevanceScore = RuleScore(link)
  /\ analyzed.reasoning = RuleReasoning(RuleScore(link))

\* C24: the fallback score of a link is min(1.0, 0.4 per query word found in
\* the lower-cased text + 0.3 per query word found in the lower-cased url
\* + 0.3 if the lower-cased query occurs in the text + 0.2 if it occurs in
\* the url), the words being those of the lower-cased query longer than 2
\* characters, each counted as often as it is said; the reasoning is "Text
\* matching fallback analysis" exactly when the score is above 0.  Every link
\* returned has this score and reasoning, and every link whose score by the
\* rule exceeds the threshold is returned.
FallbackScoreByRule ==
  pc = "returned" =>
    /\ \A i \in 1..Len(extractedContent.links) :
         RuleScore(extractedContent.links[i]) > fallbackCalls[1] =>
           \E j \in 1..Len(result.relevantLinks) :
             ScoredByRule(result.relevantLinks[j], extractedContent.links[i])
    /\ \A j \in 1..Len(result.relevantLinks) :
         \E i \in 1..Len(extractedContent.links) :
           /\ ScoredByRule(result.relevantLinks[j], extractedContent.links[i])
           /\ RuleScore(extractedContent.links[i]) > fallbackCalls[1]

\* a word said twice in the query and found in the url of a link alone: the
\* link is returned with twice 0.3, beside a link of score 0 with the other
\* reasoning
W_FallbackScoreByRule ==
  /\ pc = "returned"
  /\ Cardinality(TokenStarts) = 2
  /\ \E j \in 1..Len(result.relevantLinks) :
       /\ result.relevantLinks[j].relevanceScore = 2 * UrlWordScore
       /\ result.relevantLinks[j].reasoning = "Text matching fallback analysis"
  /\ \E j \in 1..Len(result.relevantLinks) :
       /\ result.relevantLinks[j].relevanceScore = 0
       /\ result.relevantLinks[j].reasoning = "No text match found"

LinksAt(minThreshold) ==
  fallbackTextAnalysis(extractedContent.links, userQuery, minThreshold).relevantLinks

\* C29: fallbackTextAnalysis returns the same relevantLinks at the threshold
\* 0.05 as at 0.1: every score of the rule is 0 or at least 0.2, so at either
\* threshold a link is kept if and only if its score is above 0.
ThresholdsAgree ==
  (pc = "returned" /\ fallbackCalls[1] \in {ShortQueryThreshold, DefaultThreshold}) =>
    /\ result.relevantLinks = LinksAt(ShortQueryThreshold)
    /\ result.relevantLinks = LinksAt(DefaultThreshold)
    /\ \A i \in 1..Len(extractedContent.links) :
         /\ \/ RuleScore(extractedContent.links[i]) = 0
            \/ RuleScore(extractedContent.links[i]) >= UrlPhraseBonus
         /\ Kept(i) <=> RuleScore(extractedContent.links[i]) > 0

\* at 0.05 a link of the lowest score above 0, 0.2, is kept and a link of
\* score 0 is left out
W_ThresholdsAgree ==
  /\ pc = "returned"
  /\ fallbackCalls = <<ShortQueryThreshold>>
  /\ \E i \in 1..Len(extractedContent.links) :
       RuleScore(extractedContent.links[i]) = UrlPhraseBonus /\ Kept(i)
  /\ \E i \in 1..Len(extractedContent.links) :
       RuleScore(extractedContent.links[i]) = 0 /\ ~Kept(i)

(***************************************************************************)
(* Properties of the results and the arguments (Spec).                     *)
(***************************************************************************)
\* C30: in every result no two relevantLinks share a url, and there are at
\* most totalAnalyzed of them, even when the model's response names an index
\* more than once.
NoLinkTwice ==
  pc = "returned" =>
    /\ \A j, k \in 1..Len(result.relevantLinks) :
         j # k => result.relevantLinks[j].url # result.relevantLinks[k].url
    /\ Len(result.relevantLinks) <= result.totalAnalyzed

WellFormedHref(href) == URL(resolveUrl(href, page.baseUrl)).ok
WellFormedAnchor(anchor) == WellFormedHref(anchor.href)

\* the links of the page without its malformed hrefs
LinksOfWellFormed ==
  IF page.kind = "markup"
  THEN extractLinks(SelectSeq(page.anchors, WellFormedAnchor), page.baseUrl)
  ELSE processExtractedLinks(SelectSeq(page.urls, WellFormedHref), page.baseUrl)

\* C25: an href whose resolved form does not parse is dropped without an
\* exception leaving the extractor, and the list is the one the same hrefs
\* give with the malformed ones taken out: every href before or after it that
\* is well-formed and passes the filter still has its link.
MalformedDropped ==
  Extracted =>
    /\ pc # "raised"
    /\ extractedContent.links = LinksOfWellFormed
    /\ \A i \in 1..HrefCount :
         Yields(i) => \E k \in 1..Len(extractedContent.links) :
                        extractedContent.links[k].url = ResolvedAt(i)

\* a malformed href between two hrefs that yield different links
W_MalformedDropped ==
  /\ Extracted
  /\ HrefCount = 3
  /\ Yields(1) /\ Yields(3)
  /\ ~isNonContentLink(HrefAt(2)) /\ ~WellFormedHref(HrefAt(2))
  /\ ResolvedAt(1) # ResolvedAt(3)
  /\ Len(extractedContent.links) = 2

(***************************************************************************)
(* handleWebCrawl, in its two texts (src/src/index.ts and the later text   *)
(* src/unnamed/part_002), with validateUrl, renderPage and extractLinks of *)
(* browser-utils.ts.  A url is a string; the browser rendering service,    *)
(* the extractor and the analyzer answer with one of the outcomes they     *)
(* have.  The log holds the calls made so far.                             *)
(***************************************************************************)
privatePatterns ==
  { <<"1","9","2",".","1","6","8",".">>, <<"1","0",".">>,
    <<"1","7","2",".","1","6",".">>, <<"1","7","2",".","1","7",".">>, <<"1","7","2",".","1","8",".">>, <<"1","7","2",".","1","9",".">>,
    <<"1","7","2",".","2","0",".">>, <<"1","7","2",".","2","1",".">>, <<"1","7","2",".","2","2",".">>, <<"1","7","2",".","2","3",".">>,
    <<"1","7","2",".","2","4",".">>, <<"1","7","2",".","2","5",".">>, <<"1","7","2",".","2","6",".">>, <<"1","7","2",".","2","7",".">>,
    <<"1","7","2",".","2","8",".">>, <<"1","7","2",".","2","9",".">>, <<"1","7","2",".","3","0",".">>, <<"1","7","2",".","3","1",".">> }

isPrivateOrLocalLower(lower) ==
  \/ lower = <<"l","o","c","a","l","h","o","s","t">>
  \/ lower = <<"1","2","7",".","0",".","0",".","1">>
  \/ \E pattern \in privatePatterns : startsWith(lower, pattern)

isPrivateOrLocalAddress(hostname) == isPrivateOrLocalLower(toLowerCase(hostname))

Validation(valid, reason) == [valid |-> valid, reason |-> reason]

validationOf(parsedUrl) ==
  IF ~parsedUrl.ok THEN Validation(FALSE, "Invalid URL format")
  ELSE IF parsedUrl.protocol # <<"h","t","t","p",":">> /\ parsedUrl.protocol # <<"h","t","t","p","s",":">>
  THEN Validation(FALSE, "Only HTTP and HTTPS protocols are supported")
  ELSE IF isPrivateOrLocalAddress(parsedUrl.hostname)
  THEN Validation(FALSE, "Private/local addresses are not allowed")
  ELSE Validation(TRUE, "")

validateUrl(url) == validationOf(URL(url))

\* the argument of analyzeLinksWithAI in the handler
CrawlMaxLinks == 25

\* the score ranges of the report, in hundredths
HighlyRelevantFrom == 70
ModeratelyRelevantFrom == 40
\* the number of links printed of each range, and of the sample
HighLimit == 8
ModerateLimit == 5
SomewhatLimit == 3
SomewhatOnlyBelow == 10
SampleLimit == 5

isHighly(l) == l.relevanceScore >= HighlyRelevantFrom
isModerately(l) == l.relevanceScore >= ModeratelyRelevantFrom /\ l.relevanceScore < HighlyRelevantFrom
isSomewhat(l) == l.relevanceScore < ModeratelyRelevantFrom

\* the lines of the report text
SummaryLine(linkCount, totalAnalyzed) ==
  [k |-> "summary", name |-> "", n |-> linkCount, m |-> totalAnalyzed]
FoundLine(n) == [k |-> "found", name |-> "", n |-> n, m |-> 0]
GroupLine(name, n) == [k |-> "group", name |-> name, n |-> n, m |-> 0]
LinkLine(link) == [k |-> "link", name |-> "", n |-> link.url, m |-> link.relevanceScore]
MoreLine(n) == [k |-> "more", name |-> "", n |-> n, m |-> 0]
NoneLine == [k |-> "none", name |-> "", n |-> 0, m |-> 0]
SampleLine(i) == [k |-> "sample", name |-> "", n |-> i, m |-> 0]
MoreLinksLine(n) == [k |-> "moreLinks", name |-> "", n |-> n, m |-> 0]

\* links.slice(0, limit), printed
linkLines(links, limit) == [i \in 1..min(limit, Len(links)) |-> LinkLine(links[i])]

\* one range of index.ts: the heading and the first links
rangeLines(name, links, limit) ==
  IF Len(links) > 0 THEN <<GroupLine(name, Len(links))>> \o linkLines(links, limit) ELSE << >>

\* totalShown of index.ts (lines 142-143)
totalShownOf(highlyRelevant, moderatelyRelevant, somewhatRelevant) ==
  min(HighLimit, Len(highlyRelevant)) + min(ModerateLimit, Len(moderatelyRelevant))
    + min(SomewhatLimit, Len(somewhatRelevant))

\* the line on the links left out
moreLines(relevantLinks, totalShown) ==
  IF Len(relevantLinks) > totalShown THEN <<MoreLine(Len(relevantLinks) - totalShown)>> ELSE << >>

\* index.ts lines 116-146
rangesOfIndex(relevantLinks, highlyRelevant, moderatelyRelevant, somewhatRelevant) ==
  rangeLines("Highly Relevant", highlyRelevant, HighLimit)
    \o rangeLines("Moderately Relevant", moderatelyRelevant, ModerateLimit)
    \o (IF Len(somewhatRelevant) > 0
           /\ Len(highlyRelevant) + Len(moderatelyRelevant) < SomewhatOnlyBelow
        THEN rangeLines("Somewhat Relevant", somewhatRelevant, SomewhatLimit) ELSE << >>)
    \o moreLines(relevantLinks, totalShownOf(highlyRelevant, moderatelyRelevant, somewhatRelevant))

Group(name, links, limit) == [name |-> name, links |-> links, limit |-> limit]

relevanceGroups(relevantLinks) ==
  << Group("Highly Relevant", SelectSeq(relevantLinks, isHighly), HighLimit),
     Group("Moderately Relevant", SelectSeq(relevantLinks, isModerately), ModerateLimit),
     Group("Somewhat Relevant", SelectSeq(relevantLinks, isSomewhat), SomewhatLimit) >>

\* the loop over the groups of part_002 (lines 124-134), then the line on
\* the links left out
RECURSIVE rangesOfGroups(_, _, _, _)
rangesOfGroups(relevantLinks, groups, totalShown, lines) ==
  IF groups = << >> THEN lines \o moreLines(relevantLinks, totalShown)
  ELSE IF Len(Head(groups).links) > 0
          /\ (Head(groups).name # "Somewhat Relevant" \/ totalShown < SomewhatOnlyBelow)
  THEN rangesOfGroups(relevantLinks, Tail(groups),
         totalShown + min(Head(groups).limit, Len(Head(groups).links)),
         lines \o <<GroupLine(Head(groups).name, Len(Head(groups).links))>>
               \o linkLines(Head(groups).links, Head(groups).limit))
  ELSE rangesOfGroups(relevantLinks, Tail(groups), totalShown, lines)

relevantLines(handler, relevantLinks) ==
  <<FoundLine(Len(relevantLinks))>> \o
  (IF handler = "index.ts"
   THEN rangesOfIndex(relevantLinks, SelectSeq(relevantLinks, isHighly),
                      SelectSeq(relevantLinks, isModerately), SelectSeq(relevantLinks, isSomewhat))
   ELSE rangesOfGroups(relevantLinks, relevanceGroups(relevantLinks), 0, << >>))

\* the else branch: a sample of all links
sampleLines(linkCount) ==
  <<NoneLine>> \o [i \in 1..min(SampleLimit, linkCount) |-> SampleLine(i)]
    \o (IF linkCount > SampleLimit THEN <<MoreLinksLine(linkCount - SampleLimit)>> ELSE << >>)

\* resultText
resultText(handler, linkCount, analysisResult) ==
  <<SummaryLine(linkCount, analysisResult.totalAnalyzed)>> \o
  (IF Len(analysisResult.relevantLinks) > 0
   THEN relevantLines(handler, analysisResult.relevantLinks)
   ELSE sampleLines(linkCount))

\* the results of a call
TextResult(kind, reason, lines) == [kind |-> kind, reason |-> reason, lines |-> lines]
NoResponse == TextResult("none", "", << >>)

Analysis(relevantLinks, totalAnalyzed) ==
  [relevantLinks |-> relevantLinks, totalAnalyzed |-> totalAnalyzed]
NoAnalysis == Analysis(<< >>, 0)

Crawl(handler, url, step, log, linkCount, analysisResult, response) ==
  [handler |-> handler, url |-> url, step |-> step, log |-> log, linkCount |-> linkCount,
   analysisResult |-> analysisResult, response |-> response]

at(c, step, call) == [c EXCEPT !.step = step, !.log = Append(c.log, call)]
returns(c, call, response) ==
  [c EXCEPT !.step = "returned", !.log = Append(c.log, call), !.response = response]

Handlers == {"index.ts", "part_002"}

\* a variant of the validation step that renders whatever the validation says
afterValidationIgnored(c, validation) == at(c, "validated", "validateUrl")

\* lines 66-76 of index.ts: the early return of an invalid url
afterValidation(c, validation) ==
  IF ~validation.valid
  THEN returns(c, "validateUrl", TextResult("Error: Invalid URL", validation.reason, << >>))
  ELSE at(c, "validated", "validateUrl")

\* an exception of renderPage or extractLinks: a BrowserError is answered by
\* the inner catch of the handler, and leaves a direct call
failed(c, call, code) ==
  IF c.handler \in Handlers
  THEN returns(c, call, TextResult("Browser rendering failed", code, << >>))
  ELSE returns(c, call, TextResult("BrowserError", code, << >>))

\* validateUrlOrThrow at the head of renderPage and extractLinks
afterValidateOrThrow(c, call, validation, step) ==
  IF ~validation.valid THEN failed(c, call, "INVALID_URL") ELSE at(c, step, call)

\* what the rendering service does with a request
FetchOutcomes == {"ok", "API_ERROR", "RENDER_FAILED", "TIMEOUT", "OPERATION_FAILED"}

\* the handler is entered
ValidateUrl ==
  /\ crawl.handler \in Handlers
  /\ crawl.step = "called"
  /\ crawl' = afterValidation(crawl, validateUrl(crawl.url))
  /\ UNCHANGED <<ai, extractedContent, userQuery, maxLinks, pc, result, modelCalls,
                 fallbackCalls, parseCalls, repeated, firstResult, page>>

\* renderPage up to its request
RenderPage ==
  /\ \/ crawl.handler \in Handlers /\ crawl.step = "validated"
     \/ crawl.handler = "renderPage" /\ crawl.step = "called"
  /\ crawl' = afterValidateOrThrow(crawl, "renderPage", validateUrl(crawl.url), "rendering")
  /\ UNCHANGED <<ai, extractedContent, userQuery, maxLinks, pc, result, modelCalls,
                 fallbackCalls, parseCalls, repeated, firstResult, page>>

\* the request of renderPage and its answer
RenderFetch ==
  /\ crawl.step = "rendering"
  /\ \E outcome \in FetchOutcomes :
       crawl' = IF outcome # "ok" THEN failed(crawl, "fetch", outcome)
                ELSE IF crawl.handler \in Handlers THEN at(crawl, "rendered", "fetch")
                ELSE returns(crawl, "fetch", TextResult("BrowserRenderResult", "", << >>))
  /\ UNCHANGED <<ai, extractedContent, userQuery, maxLinks, pc, result, modelCalls,
                 fallbackCalls, parseCalls, repeated, firstResult, page>>

\* extractLinks of browser-utils.ts up to its request (part_002 only)
ExtractLinks ==
  /\ crawl.handler = "part_002"
  /\ crawl.step = "rendered"
  /\ crawl' = afterValidateOrThrow(crawl, "extractLinks", validateUrl(crawl.url), "listing")
  /\ UNCHANGED <<ai, extractedContent, userQuery, maxLinks, pc, result, modelCalls,
                 fallbackCalls, parseCalls, repeated, firstResult, page>>

\* the numbers of urls the service lists, and of links made of them
CrawlLinkCounts == {0, 1, 3}

\* the request of extractLinks and its answer
ExtractLinksFetch ==
  /\ crawl.step = "listing"
  /\ \E outcome \in (FetchOutcomes \ {"RENDER_FAILED"}) \cup {"EXTRACTION_FAILED"}, listed \in CrawlLinkCounts :
       crawl' = IF outcome # "ok" THEN failed(crawl, "fetch", outcome)
                ELSE [at(crawl, "listed", "fetch") EXCEPT !.linkCount = listed]
  /\ UNCHANGED <<ai, extractedContent, userQuery, maxLinks, pc, result, modelCalls,
                 fallbackCalls, parseCalls, repeated, firstResult, page>>

\* extractPageContent(renderResult.html, ...) of index.ts, where html is the
\* empty string renderPage returns, and extractPageContentFromMarkdown of
\* part_002, which makes at most one link of a listed url
ExtractContent ==
  /\ \/ crawl.handler = "index.ts" /\ crawl.step = "rendered"
     \/ crawl.handler = "part_002" /\ crawl.step = "listed"
  /\ \E linkCount \in CrawlLinkCounts :
       /\ linkCount <= crawl.linkCount
       /\ crawl' = [at(crawl, "extracted",
                       IF crawl.handler = "index.ts" THEN "extractPageContent"
                       ELSE "extractPageContentFromMarkdown")
                    EXCEPT !.linkCount = linkCount]
  /\ UNCHANGED <<ai, extractedContent, userQuery, maxLinks, pc, result, modelCalls,
                 fallbackCalls, parseCalls, repeated, firstResult, page>>

RelevantLink(url, relevanceScore) == [url |-> url, relevanceScore |-> relevanceScore]

\* relevant links of the scores, best first
relevantOf(scores) == [i \in 1..Len(scores) |-> RelevantLink(i, scores[i])]

\* results analyzeLinksWithAI has for a page of linkCount links
CrawlAnalyses(linkCount) ==
  { Analysis(relevantOf(scores), min(linkCount, CrawlMaxLinks)) :
      scores \in {s \in {<< >>, <<70>>, <<39>>, <<100, 40, 10>>} : Len(s) <= linkCount} }

\* analyzeLinksWithAI answers, or its exception reaches the outer catch
Analyze ==
  /\ crawl.step = "extracted"
  /\ \/ \E analysisResult \in CrawlAnalyses(crawl.linkCount) :
          crawl' = [at(crawl, "analyzed", "analyzeLinksWithAI")
                    EXCEPT !.analysisResult = analysisResult]
     \/ /\ crawl.linkCount > 0
        /\ crawl' = returns(crawl, "analyzeLinksWithAI", TextResult("Error crawling", "", << >>))
  /\ UNCHANGED <<ai, extractedContent, userQuery, maxLinks, pc, result, modelCalls,
                 fallbackCalls, parseCalls, repeated, firstResult, page>>

\* the report is put together and returned
Format ==
  /\ crawl.step = "analyzed"
  /\ crawl' = returns(crawl, "format",
                TextResult("Successfully crawled page", "",
                           resultText(crawl.handler, crawl.linkCount, crawl.analysisResult)))
  /\ UNCHANGED <<ai, extractedContent, userQuery, maxLinks, pc, result, modelCalls,
                 fallbackCalls, parseCalls, repeated, firstResult, page>>

DocsRootUrl == <<"h","t","t","p",":","/","/","d","o","c","s",".","e","x","a","m","p","l","e",".","c","o","m","/">>
PublicAddressUrl == <<"h","t","t","p",":","/","/","1","7","2",".","3","2",".","0",".","1","/","s","t","a","t","u","s">>
CrawlUrls ==
  { BlogPostUrl, DocsRootUrl, PublicAddressUrl,
    <<"f","t","p",":","/","/","e","x","a","m","p","l","e",".","c","o","m","/","f","i","l","e">>, <<"h","t","t","p",":","/","/","L","o","c","a","l","H","o","s","t",":","8","0","8","0","/","a","d","m","i","n">>, <<"h","t","t","p",":","/","/","1","2","7",".","0",".","0",".","1","/">>,
    <<"h","t","t","p",":","/","/","1","9","2",".","1","6","8",".","1",".","1","/">>, <<"h","t","t","p","s",":","/","/","1","0",".","0",".","0",".","5","/","x">>, <<"h","t","t","p",":","/","/","1","7","2",".","2","0",".","0",".","1","/">>, <<"n","o","t"," ","a"," ","u","r","l">> }

Quiet ==
  /\ ai = AiThrows
  /\ extractedContent = NoContent
  /\ userQuery = << >>
  /\ maxLinks = DefaultMaxLinks
  /\ pc = "idle"
  /\ result = NoResult
  /\ modelCalls = << >>
  /\ fallbackCalls = << >>
  /\ parseCalls = 0
  /\ repeated = FALSE
  /\ firstResult = NoResult
  /\ page = NoPage

\* handleWebCrawl(url, query) of either text, or renderPage(config, {url})
CrawlInit ==
  /\ crawl \in { Crawl(handler, url, "called", << >>, 0, NoAnalysis, NoResponse) :
                   handler \in Handlers \cup {"renderPage"}, url \in CrawlUrls }
  /\ Quiet

CrawlNext ==
  \/ ValidateUrl
  \/ RenderPage
  \/ RenderFetch
  \/ ExtractLinks
  \/ ExtractLinksFetch
  \/ ExtractContent
  \/ Analyze
  \/ Format

CrawlSpec == CrawlInit /\ [][CrawlNext]_vars

(***************************************************************************)
(* The report alone: the formatting step on analysis results of up to      *)
(* MaxRelevant links.                                                      *)
(***************************************************************************)
MaxRelevant == 11
ReportScores == {10, 39, 40, 69, 70}

\* the score lists of length n that sort leaves: no score before a larger one
startingWith(score, lists) ==
  {<<score>> \o t : t \in {u \in lists : u = << >> \/ Head(u) <= score}}

oneLonger(lists) == UNION {startingWith(score, lists) : score \in ReportScores}

RECURSIVE SortedScores(_)
SortedScores(n) == IF n = 0 THEN {<< >>} ELSE oneLonger(SortedScores(n - 1))

ScoreLists == UNION {SortedScores(n) : n \in 0..MaxRelevant}

ReportInit ==
  /\ crawl \in { Crawl(handler, BlogPostUrl, "analyzed", << >>, MaxRelevant,
                       Analysis(relevantOf(scores), min(MaxRelevant, CrawlMaxLinks)), NoResponse) :
                   handler \in Handlers, scores \in ScoreLists }
  /\ Quiet

ReportNext == Format

ReportSpec == ReportInit /\ [][ReportNext]_vars

(***************************************************************************)
(* Properties of handleWebCrawl (CrawlSpec) and of its report (ReportSpec).*)
(***************************************************************************)
IsPrefix(p, s) == Len(p) <= Len(s) /\ SubSeq(s, 1, Len(p)) = p

\* the calls of a whole run, in the order of the text
StepsOf(handler) ==
  IF handler = "index.ts"
  THEN <<"validateUrl", "renderPage", "fetch", "extractPageContent",
         "analyzeLinksWithAI", "format">>
  ELSE IF handler = "part_002"
  THEN <<"validateUrl", "renderPage", "fetch", "extractLinks", "fetch",
         "extractPageContentFromMarkdown", "analyzeLinksWithAI", "format">>
  ELSE <<"renderPage", "fetch">>

\* the urls of the pool with an http(s) scheme and a public host
PublicUrls == {BlogPostUrl, DocsRootUrl, PublicAddressUrl}

RejectionOn(c, validation) ==
  /\ validation.valid <=> c.url \in PublicUrls
  /\ c.response.kind = "Error: Invalid URL" => c.url \notin PublicUrls
  /\ c.url \notin PublicUrls =>
       /\ \A i \in 1..Len(c.log) : c.log[i] # "fetch"
       /\ c.handler \in Handlers =>
            /\ IsPrefix(c.log, <<"validateUrl">>)
            /\ c.step = "returned" =>
                 c.response = TextResult("Error: Invalid URL", validation.reason, << >>)
       /\ c.handler = "renderPage" /\ c.step = "returned" =>
            c.response = TextResult("BrowserError", "INVALID_URL", << >>)

printed(lines, link) == \E i \in 1..Len(lines) : lines[i] = LinkLine(link)

unprinted(lines, relevantLinks) ==
  Cardinality({i \in 1..Len(relevantLinks) : ~printed(lines, relevantLinks[i])})

moreLinesOf(lines) == {i \in 1..Len(lines) : lines[i].k = "more"}

InOneRange(link) ==
  /\ isHighly(link) \/ isModerately(link) \/ isSomewhat(link)
  /\ ~(isHighly(link) /\ isModerately(link))
  /\ ~(isHighly(link) /\ isSomewhat(link))
  /\ ~(isModerately(link) /\ isSomewhat(link))

CountsOn(lines, relevantLinks, missing) ==
  /\ \A i \in 1..Len(relevantLinks) : InOneRange(relevantLinks[i])
  /\ missing > 0 => /\ Cardinality(moreLinesOf(lines)) = 1
                    /\ \E i \in 1..Len(lines) : lines[i] = MoreLine(missing)
  /\ missing = 0 => moreLinesOf(lines) = {}

Reported ==
  /\ crawl.step = "returned"
  /\ crawl.response.kind = "Successfully crawled page"
  /\ Len(crawl.analysisResult.relevantLinks) > 0

\* C28 (as claimed): every relevant link is in one of the three ranges, and
\* the report has the line '... and N more relevant links' exactly when some
\* relevant link is not printed, with N the number of relevant links not
\* printed, those of a range left out included.
MoreLineCountsUnprinted ==
  Reported =>
    CountsOn(crawl.response.lines, crawl.analysisResult.relevantLinks,
             unprinted(crawl.response.lines, crawl.analysisResult.relevantLinks))

====
